---- MODULE Spec2Model ----
(***************************************************************************)
(* A model of the Pulse payment router (TFMV/pulse): the per-region        *)
(* circuit breaker (router/health.go), the dispatcher and health probes    *)
(* (router/router.go), the connection server (iso/server.go), the regional *)
(* issuers (issuer/) and the reply-MTI helper of the workflow              *)
(* (workflow/workflows.go).                                                *)
(*                                                                         *)
(* Time is the wall clock in seconds.  Strings of digits (mti, pan, ...)   *)
(* are sequences of one-character strings.                                 *)
(***************************************************************************)
EXTENDS Integers, Sequences, FiniteSets, TLC

(***************************************************************************)
(* Bounds of the model (not program constants).                            *)
(***************************************************************************)
\* the clock advances in steps of TickSeconds, up to MaxTime
TickSeconds == 15
MaxTime == 45
\* RecordFailure is not called on a tracker that holds MaxErrors recent errors
MaxErrors == 6
\* concurrent callers of one RegionHealth
NumThreads == 2
\* frames a client sends on one connection
MaxFrames == 1
\* frames the server reads on one socket
MaxReads == 2
\* attempts of the LogTransaction activity that are followed
MaxLogAttempts == 2
\* SpecWindow: the clock runs past the error window, up to MaxWindowTime
MaxWindowTime == 75
\* SpecFraud: the instants, in minutes, at which Analyze calls are made, and
\* the calls that reach the velocity check
FraudTimes == {0, 2, 5, 60, 62}
MaxAnalyses == 5
\* SpecFraudConc: CheckTransaction activities that run at once, and the
\* velocity checks they make in all
NumActivities == 2
MaxChecks == 3

(***************************************************************************)
(* router/health.go: constants.                                            *)
(***************************************************************************)
CircuitClosed == "Closed"
CircuitOpen == "Open"
CircuitHalfOpen == "HalfOpen"

FailureThreshold == 5
ResetTimeout == 30
ErrorWindow == 60

VARIABLES
    now,      \* time.Now(), in seconds
    rh,       \* one RegionHealth, called directly (SpecHealth, SpecConc)
    ev,       \* the last call completed on rh: its name, the State it found, the
              \* time since LastStateChange when it was made, its result
    streak,   \* RecordFailure calls in a row since rh was Closed with no failures; -1: none
    tpc,      \* SpecConc: where each caller stands inside IsHealthy
    rq,       \* SpecReply: an inbound message
    reply,    \* SpecReply: the reply produced for rq, and the path that produced it
    regionHealth,  \* Router.regionHealth: the tracker of each region
    conn,     \* per connection: the connection task and its HandleMessage call
    jobs,     \* the detached audit writes that have not ended
    store,    \* the audit store: stan -> row
    hrun,     \* per region: failures recorded in a row since the tracker was
              \* Closed with none counted; -1: none
    tripTime, \* per region: when hrun last reached FailureThreshold; -1: never
    acct,     \* the RPC that returned in the last step, if one did: who placed
              \* it, to which region, how it ended, the tracker updates made
    srv,      \* iso.Server: isShutdown, the listener, the connections table,
              \* where the accept loop of Start stands
    sc,       \* per socket of iso.Server: its connection task, the frames it
              \* has read and the replies it has written
    dr,       \* SpecRegion: a route table, a default region, a pan, and what
              \* determineRegion returned for them
    gt,       \* SpecLookup: a call of the GetTransaction endpoint: the stan,
              \* what the storage returned, what the endpoint returned
    fa,       \* a SimpleFraudAnalyzer: its recentTransactions, the clock in
              \* minutes, the last Analyze call made on it and what it returned,
              \* and every (pan, time) that reached checkVelocity
    ct,       \* SpecTable: the tasks of iso.Server and their accesses to
              \* Server.connections and Server.isShutdown, each access lasting
              \* from its begin to its end
    lk,       \* SpecLocks: r.healthMutex, the mutex of each RegionHealth, and
              \* for each task the lock operations its call has still to make
    wf        \* one run of PaymentWorkflow.Execute: where it stands, its
              \* search attributes, the activity attempts made (and how many
              \* RPCs were placed, how many ran out of time), what it returned

healthVars == <<rh, ev, streak, tpc>>
replyVars == <<rq, reply>>
routerVars == <<regionHealth, conn, jobs, store, hrun, tripTime>>
serverVars == <<srv, sc>>
vars == <<now, rh, ev, streak, tpc, rq, reply,
          regionHealth, conn, jobs, store, hrun, tripTime, acct, srv, sc, wf,
          dr, gt, fa, ct, lk>>

Threads == 1..NumThreads

(***************************************************************************)
(* router/health.go: RegionHealth, as functions of the tracker h and the   *)
(* time t at which the call runs.                                          *)
(***************************************************************************)
NewRegionHealth(t) ==
    [State |-> CircuitClosed,
     ConsecutiveFailures |-> 0,
     LastStateChange |-> t,
     RecentErrors |-> <<>>]

\* RecordSuccess that resets the count only when it closes the circuit
RecordSuccess_ResetOnlyOnClose(h, t) ==
    IF h.State = CircuitHalfOpen
    THEN [h EXCEPT !.ConsecutiveFailures = 0, !.State = CircuitClosed,
                   !.LastStateChange = t]
    ELSE h

\* RecordSuccess that closes the circuit from Open as from HalfOpen
RecordSuccess_ClosesOpen(h, t) ==
    LET h1 == [h EXCEPT !.ConsecutiveFailures = 0]
    IN  IF h1.State # CircuitClosed
        THEN [h1 EXCEPT !.State = CircuitClosed, !.LastStateChange = t]
        ELSE h1

RecordSuccess(h, t) ==
    LET h1 == [h EXCEPT !.ConsecutiveFailures = 0]
    IN  IF h1.State = CircuitHalfOpen
        THEN [h1 EXCEPT !.State = CircuitClosed, !.LastStateChange = t]
        ELSE h1

\* the loop of RecordFailure that keeps the errors of the window
RECURSIVE CleanErrors(_, _)
CleanErrors(errs, t) ==
    IF errs = <<>> THEN <<>>
    ELSE IF t - Head(errs) <= ErrorWindow
         THEN <<Head(errs)>> \o CleanErrors(Tail(errs), t)
         ELSE CleanErrors(Tail(errs), t)

\* RecordFailure that opens one failure late (> for >=)
RecordFailure_OneLate(h, t) ==
    LET h1 == [h EXCEPT !.ConsecutiveFailures = @ + 1]
        h2 == [h1 EXCEPT !.RecentErrors = CleanErrors(Append(@, t), t)]
    IN  IF h2.State = CircuitClosed /\ h2.ConsecutiveFailures > FailureThreshold
        THEN [h2 EXCEPT !.State = CircuitOpen, !.LastStateChange = t]
        ELSE h2

\* RecordFailure that counts and never opens the circuit
RecordFailure_CountsOnly(h, t) ==
    LET h1 == [h EXCEPT !.ConsecutiveFailures = @ + 1]
    IN  [h1 EXCEPT !.RecentErrors = CleanErrors(Append(@, t), t)]

RecordFailure(h, t) ==
    LET h1 == [h EXCEPT !.ConsecutiveFailures = @ + 1]
        h2 == [h1 EXCEPT !.RecentErrors = CleanErrors(Append(@, t), t)]
    IN  IF h2.State = CircuitClosed /\ h2.ConsecutiveFailures >= FailureThreshold
        THEN [h2 EXCEPT !.State = CircuitOpen, !.LastStateChange = t]
        ELSE h2

\* the test with >= for >: half-open as soon as ResetTimeout has elapsed
ShouldTryHalfOpen_AtTimeout(h, t) ==
    h.State = CircuitOpen /\ t - h.LastStateChange >= ResetTimeout

\* IsHealthy, first critical section (read lock): the test for half-open
ShouldTryHalfOpen(h, t) ==
    h.State = CircuitOpen /\ t - h.LastStateChange > ResetTimeout

\* IsHealthy, second critical section (write lock): the transition
SetHalfOpen(h, t) ==
    [h EXCEPT !.State = CircuitHalfOpen, !.LastStateChange = t]

\* IsHealthy, the value returned (read lock)
HealthyState(h) ==
    h.State = CircuitClosed \/ h.State = CircuitHalfOpen

\* IsHealthy run with no other call in between: the tracker left and the result
IsHealthy(h, t) ==
    LET h1 == IF ShouldTryHalfOpen(h, t) THEN SetHalfOpen(h, t) ELSE h
    IN  [h |-> h1, ret |-> HealthyState(h1)]

GetState(h) == h.State

\* GetHealth in tenths (the code returns a float in 0.0 .. 1.0)
GetHealth(h) ==
    IF h.State = CircuitOpen THEN 0
    ELSE IF Len(h.RecentErrors) = 0 THEN 10
    ELSE IF 10 - Len(h.RecentErrors) < 0 THEN 0
    ELSE 10 - Len(h.RecentErrors)

(***************************************************************************)
(* Strings.  A Go string that the code slices or parses is a sequence of   *)
(* one-character strings; one that it only compares is a TLA+ string.      *)
(***************************************************************************)
Digit == {"0", "1", "2", "3", "4", "5", "6", "7", "8", "9"}

DigitValue(ch) ==
    CASE ch = "0" -> 0 [] ch = "1" -> 1 [] ch = "2" -> 2 [] ch = "3" -> 3
      [] ch = "4" -> 4 [] ch = "5" -> 5 [] ch = "6" -> 6 [] ch = "7" -> 7
      [] ch = "8" -> 8 [] ch = "9" -> 9

\* s[:n] and s[n:] of Go, for 0 <= n <= len(s)
Take(s, n) == SubSeq(s, 1, n)
Drop(s, n) == SubSeq(s, n + 1, Len(s))

\* strings.HasPrefix
HasPrefix(s, p) == Len(p) <= Len(s) /\ Take(s, Len(p)) = p

\* strings.Contains(s, ch) for a one-character ch
Contains(s, ch) == \E i \in DOMAIN s : s[i] = ch

\* strings.Split(s, sep) for a one-character sep
RECURSIVE Split(_, _)
Split(s, sep) ==
    IF ~Contains(s, sep) THEN <<s>>
    ELSE LET i == CHOOSE k \in DOMAIN s :
                      s[k] = sep /\ \A j \in 1..(k - 1) : s[j] # sep
         IN  <<Take(s, i - 1)>> \o Split(Drop(s, i), sep)

\* the value of a string of digits
RECURSIVE DigitsValue(_)
DigitsValue(s) ==
    IF s = <<>> THEN 0
    ELSE 10 * DigitsValue(Take(s, Len(s) - 1)) + DigitValue(s[Len(s)])

\* strconv.Atoi on strings of digits and "-" separators' parts: ok is false
\* for the empty string and for a string with a character that is no digit
Atoi(s) ==
    IF s # <<>> /\ \A i \in DOMAIN s : s[i] \in Digit
    THEN [ok |-> TRUE, v |-> DigitsValue(s)]
    ELSE [ok |-> FALSE, v |-> 0]

(***************************************************************************)
(* Configuration (router.Config), as main.go loads it.                     *)
(***************************************************************************)
\* config.Regions: the regions with a processor, a client and a tracker
Regions == {"us_east", "eu_west"}

\* config.FailoverMap, the default of loadConfig
FailoverMap == [r \in Regions |-> IF r = "us_east" THEN "eu_west" ELSE "us_east"]

\* config.BinRoutes: a prefix key, a range key, and a route to a region that
\* config.Regions does not hold
BinRoutes ==
    (<<"4">> :> "us_east")
    @@ (<<"5", "0", "0", "0", "-", "5", "9", "9", "9">> :> "eu_west")
    @@ (<<"6">> :> "ap_south")

DefaultRegion == "us_east"

\* r.clients, filled by Initialize from config.Regions
Clients == Regions

(***************************************************************************)
(* router/router.go: determineRegion.  The route table is a Go map, read   *)
(* in an order the language leaves open: the function returns at the first *)
(* entry that matches, so every matching entry is a possible result.       *)
(***************************************************************************)
\* an entry whose range leaves out its two bounds
RouteEntry_Exclusive(binRange, bin) ==
    IF ~Contains(binRange, "-")
    THEN IF HasPrefix(bin, binRange) THEN "match" ELSE "skip"
    ELSE LET parts == Split(binRange, "-")
         IN  IF Len(parts) # 2 THEN "skip"
             ELSE LET start == Atoi(parts[1])
                      end == Atoi(parts[2])
                  IN  IF ~start.ok \/ ~end.ok THEN "skip"
                      ELSE IF Len(parts[1]) > Len(bin) THEN "panic"
                      ELSE LET binInt == Atoi(Take(bin, Len(parts[1])))
                           IN  IF ~binInt.ok THEN "skip"
                               ELSE IF binInt.v > start.v /\ binInt.v < end.v
                                    THEN "match" ELSE "skip"

\* what one entry of the table does with bin: "match", "skip", or "panic"
\* (bin[:len(parts[0])] with a lower bound longer than bin)
RouteEntry(binRange, bin) ==
    IF ~Contains(binRange, "-")
    THEN IF HasPrefix(bin, binRange) THEN "match" ELSE "skip"
    ELSE LET parts == Split(binRange, "-")
         IN  IF Len(parts) # 2 THEN "skip"
             ELSE LET start == Atoi(parts[1])
                      end == Atoi(parts[2])
                  IN  IF ~start.ok \/ ~end.ok THEN "skip"
                      ELSE IF Len(parts[1]) > Len(bin) THEN "panic"
                      ELSE LET binInt == Atoi(Take(bin, Len(parts[1])))
                           IN  IF ~binInt.ok THEN "skip"
                               ELSE IF binInt.v >= start.v /\ binInt.v <= end.v
                                    THEN "match" ELSE "skip"

\* the results determineRegion can give for pan under the table routes
determineRegionOf(routes, default, pan) ==
    IF Len(pan) < 6 THEN {default}
    ELSE LET bin == Take(pan, 6)
             hit == {k \in DOMAIN routes : RouteEntry(k, bin) = "match"}
             bad == {k \in DOMAIN routes : RouteEntry(k, bin) = "panic"}
         IN  {routes[k] : k \in hit}
             \cup (IF bad # {} THEN {"panic"}
                   ELSE IF hit = {} THEN {default} ELSE {})

determineRegion(pan) == determineRegionOf(BinRoutes, DefaultRegion, pan)

(***************************************************************************)
(* Messages.  An ISO 8583 message is a function from the numbers of the    *)
(* fields that are set to their values: 0 mti, 2 pan, 4 amount,            *)
(* 7 transmission time, 11 stan, 39 response code.                         *)
(***************************************************************************)
\* message.GetString(id): the value, "" for a field that is not set
GetString(message, id) ==
    IF id \in DOMAIN message THEN message[id] ELSE <<>>

\* isoToAuthRequest: the AuthRequest of a message (Region is set later)
isoToAuthRequest(message) ==
    [Mti |-> GetString(message, 0),
     Pan |-> GetString(message, 2),
     Amount |-> GetString(message, 4),
     TransmissionTime |-> GetString(message, 7),
     Stan |-> GetString(message, 11),
     Region |-> ""]

\* the loop over fieldsToCopy of authResponseToIso and createTimeoutResponse
CopiedFields(requestMessage) ==
    [id \in {2, 4, 7, 11} \cap DOMAIN requestMessage |-> requestMessage[id]]

\* a translation that takes fields 2, 4, 7 and 11 from the response
authResponseToIso_FromResponse(response, requestMessage) ==
    (0 :> response.Mti) @@ (2 :> response.Pan) @@ (4 :> response.Amount)
    @@ (7 :> response.TransmissionTime) @@ (11 :> response.Stan)
    @@ (39 :> response.ResponseCode)

\* authResponseToIso: the reply frame of a processor's response
authResponseToIso(response, requestMessage) ==
    (0 :> response.Mti) @@ CopiedFields(requestMessage)
    @@ (39 :> response.ResponseCode)

\* createTimeoutResponse: the reply frame of a request that timed out
createTimeoutResponse(requestMessage) ==
    LET mti == GetString(requestMessage, 0)
        responseMti == Take(mti, 2) \o <<"1", "0">>
    IN  (0 :> responseMti) @@ CopiedFields(requestMessage) @@ (39 :> "91")

\* workflow/workflows.go: getResponseMTI
getResponseMTI(requestMTI) ==
    IF Len(requestMTI) # 4 THEN <<"0", "1", "1", "0">>
    ELSE Take(requestMTI, 2) \o <<"1">> \o Drop(requestMTI, 3)

(***************************************************************************)
(* issuer/: the regional processors.                                       *)
(***************************************************************************)
\* strconv.ParseFloat on the amount: strings of digits parse, "" does not
ParseFloat(s) == Atoi(s)

\* issuer/us_east.go: USEastIssuer.ProcessAuth
USEastProcessAuth(req) ==
    LET amountVal == ParseFloat(req.Amount)
        code == IF ~amountVal.ok THEN "12"
                ELSE IF req.Pan[Len(req.Pan)] = "0" THEN "14"
                ELSE IF amountVal.v > 500 THEN "05"
                ELSE "00"
    IN  [Mti |-> <<"0", "1", "1", "0">>, Pan |-> req.Pan, Amount |-> req.Amount,
         TransmissionTime |-> req.TransmissionTime, Stan |-> req.Stan,
         ResponseCode |-> code]

\* issuer/eu_west.go: isNightTimeTransaction
isNightTimeTransaction(timestamp) ==
    IF Len(timestamp) < 10 THEN FALSE
    ELSE LET hour == Atoi(SubSeq(timestamp, 5, 6))
         IN  hour.ok /\ (hour.v >= 23 \/ hour.v < 5)

\* issuer/eu_west.go: EUWestIssuer.ProcessAuth
EUWestProcessAuth(req) ==
    LET amountVal == ParseFloat(req.Amount)
        code == IF ~amountVal.ok THEN "12"
                ELSE IF isNightTimeTransaction(req.TransmissionTime)
                        /\ amountVal.v > 200 THEN "59"
                ELSE IF amountVal.v > 400 THEN "05"
                ELSE "00"
    IN  [Mti |-> <<"0", "1", "1", "0">>, Pan |-> req.Pan, Amount |-> req.Amount,
         TransmissionTime |-> req.TransmissionTime, Stan |-> req.Stan,
         ResponseCode |-> code]

\* the processor behind the client of a region
ProcessAuth(region, req) ==
    IF region = "us_east" THEN USEastProcessAuth(req) ELSE EUWestProcessAuth(req)

\* workflow/workflows.go, Execute: the response built for a fraud reject
\* ("59") and for an authorization that failed after its retries ("96")
DeclineResponse(request, code) ==
    [Mti |-> getResponseMTI(request.Mti), Pan |-> request.Pan,
     Amount |-> request.Amount, TransmissionTime |-> request.TransmissionTime,
     Stan |-> request.Stan, ResponseCode |-> code]

(***************************************************************************)
(* router/router.go: HandleMessage, the parts without state.               *)
(***************************************************************************)
\* main.go hands the router a chaos engine and a storage when configured
ChaosEnabled == TRUE
StorageConfigured == TRUE

\* how client.ProcessAuth can end: a response, an error for which
\* errors.Is(err, context.DeadlineExceeded) holds, any other error
Outcomes == {"ok", "deadline", "error"}

\* the target of a selection that never leaves the primary
TargetRegion_NoFailover(primaryRegion, primaryHealthy, failoverHealthy) ==
    primaryRegion

\* the target with a failover that is taken whether or not it is healthy
TargetRegion_AnyFailover(primaryRegion, primaryHealthy, failoverHealthy) ==
    IF ~primaryHealthy /\ primaryRegion \in DOMAIN FailoverMap
    THEN FailoverMap[primaryRegion]
    ELSE primaryRegion

\* targetRegion after the selection (failoverHealthy is read only when the
\* primary is not healthy and has an entry in the failover map)
TargetRegion(primaryRegion, primaryHealthy, failoverHealthy) ==
    IF ~primaryHealthy /\ primaryRegion \in DOMAIN FailoverMap /\ failoverHealthy
    THEN FailoverMap[primaryRegion]
    ELSE primaryRegion

\* the updates without the failure of an RPC that ran out of time
HealthCalls_DeadlineNotCounted(trackers, region, outcome) ==
    IF region \notin trackers \/ outcome = "deadline" THEN <<>>
    ELSE <<[region |-> region,
            op |-> IF outcome = "ok" THEN "RecordSuccess" ELSE "RecordFailure"]>>

\* the RecordSuccess / RecordFailure calls made when an RPC to region returns
\* (HandleMessage and checkAllRegionsHealth alike)
HealthCalls(trackers, region, outcome) ==
    IF region \notin trackers THEN <<>>
    ELSE <<[region |-> region,
            op |-> IF outcome = "ok" THEN "RecordSuccess" ELSE "RecordFailure"]>>

\* The router's state holds of each tracker the fields that a later call on
\* it can still read: ConsecutiveFailures is read by RecordFailure on a Closed
\* tracker only (RecordSuccess resets it on the way back to Closed),
\* LastStateChange by IsHealthy on an Open tracker only, RecentErrors by
\* GetHealth only.  The other values are left out of the state.
Tracked(h) ==
    [State |-> h.State,
     ConsecutiveFailures |->
         IF h.State = CircuitClosed THEN h.ConsecutiveFailures ELSE 0,
     LastStateChange |-> IF h.State = CircuitOpen THEN h.LastStateChange ELSE 0,
     RecentErrors |-> <<>>]

\* the trackers after the calls
RECURSIVE ApplyCalls(_, _, _)
ApplyCalls(health, calls, t) ==
    IF calls = <<>> THEN health
    ELSE LET c == Head(calls)
             h == IF c.op = "RecordSuccess"
                  THEN RecordSuccess(health[c.region], t)
                  ELSE RecordFailure(health[c.region], t)
         IN  ApplyCalls([health EXCEPT ![c.region] = Tracked(h)], Tail(calls), t)

\* the deadline treated as any other error of the RPC
TimeoutReply_AsError(requestMessage) == [kind |-> "error"]

\* what HandleMessage returns for an RPC that failed with a deadline
TimeoutReply(requestMessage) ==
    [kind |-> "frame", frame |-> createTimeoutResponse(requestMessage)]

\* what HandleMessage returns when the RPC has ended
RpcResult(outcome, response, requestMessage) ==
    IF outcome = "ok"
    THEN [kind |-> "frame", frame |-> authResponseToIso(response, requestMessage)]
    ELSE IF outcome = "deadline" THEN TimeoutReply(requestMessage)
    ELSE [kind |-> "error"]

(***************************************************************************)
(* Calls on one RegionHealth.                                              *)
(***************************************************************************)
Event(op, h, ret) ==
    [op |-> op, pre |-> h.State, ret |-> ret,
     age |-> IF op = "IsHealthy" THEN now - h.LastStateChange ELSE 0]

\* the count of RecordFailure calls in a row restarts whenever the tracker
\* is Closed with no failure counted
StreakAfter(h) ==
    IF h.State = CircuitClosed /\ h.ConsecutiveFailures = 0 THEN 0 ELSE -1

InitHealth ==
    /\ rh = NewRegionHealth(0)
    /\ ev = [op |-> "NewRegionHealth", pre |-> CircuitClosed, ret |-> TRUE, age |-> 0]
    /\ streak = 0
    /\ tpc = [t \in Threads |-> "idle"]

\* an inbound frame
Frame(mti, pan, amount, time, stan) ==
    (0 :> mti) @@ (2 :> pan) @@ (4 :> amount) @@ (7 :> time) @@ (11 :> stan)

Mti0100 == <<"0", "1", "0", "0">>
NoonTime == <<"0", "1", "0", "1", "1", "2", "0", "0", "0", "0">>

\* frames routed to us_east, to eu_west (declined there as over 400, approved
\* by us_east) and to ap_south, a region without client
FrameUS == Frame(Mti0100, <<"4", "1", "1", "1", "1", "1", "1">>, <<"1", "0", "0">>,
                 NoonTime, "000001")
FrameEU == Frame(Mti0100, <<"5", "1", "1", "1", "1", "1", "1">>, <<"4", "5", "0">>,
                 NoonTime, "000002")
FrameAP == Frame(Mti0100, <<"6", "1", "1", "1", "1", "1", "1">>, <<"1", "0", "0">>,
                 NoonTime, "000003")
\* a frame of the high-risk BIN 431274 with an amount over 500
FrameRisk == Frame(Mti0100, <<"4", "3", "1", "2", "7", "4", "1">>, <<"6", "0", "0">>,
                   NoonTime, "000004")
Frames == {FrameUS, FrameEU, FrameAP}

\* the client connections the server has accepted
Conns == {"c1"}
Sockets == {"s1", "s2"}

NoReply == [by |-> "none"]
NoAcct == [by |-> "none"]

\* a connection task waiting for a frame
IdleConn ==
    [pc |-> "idle", reads |-> 0, out |-> <<>>, message |-> <<>>,
     primary |-> "", target |-> "", region |-> "",
     pH |-> FALSE, fChecked |-> FALSE, fH |-> FALSE, tripped |-> FALSE,
     outcome |-> "none", result |-> [kind |-> "none"]]

\* a trip is forgotten once ResetTimeout has passed since
TripsAt(t) ==
    [r \in DOMAIN tripTime |->
        IF tripTime[r] >= 0 /\ t - tripTime[r] <= ResetTimeout
        THEN tripTime[r] ELSE -1]

\* NewRouter: a tracker per region of the configuration
InitRouter ==
    /\ regionHealth = [r \in Regions |-> NewRegionHealth(0)]
    /\ conn = [c \in Conns |-> IdleConn]
    /\ jobs = {}
    /\ store = <<>>
    /\ hrun = [r \in Regions |-> 0]
    /\ tripTime = [r \in Regions |-> -1]
    /\ acct = NoAcct

\* a socket no client has connected on
NoSocket ==
    [pc |-> "none", sock |-> "none", reads |-> <<>>, out |-> <<>>,
     message |-> <<>>, response |-> <<>>, closedBy |-> "none"]

\* no response yet
NoResponse ==
    [Mti |-> <<>>, Pan |-> <<>>, Amount |-> <<>>, TransmissionTime |-> <<>>,
     Stan |-> "", ResponseCode |-> ""]

\* no request yet
NoRequest ==
    [Mti |-> <<>>, Pan |-> <<>>, Amount |-> <<>>, TransmissionTime |-> <<>>,
     Stan |-> "", Region |-> ""]

\* no workflow run has started
IdleWorkflow ==
    [pc |-> "idle", request |-> NoRequest, region |-> "",
     FraudCheckStatus |-> "", TransactionStatus |-> "",
     screenAttempts |-> 0, screen |-> "none",
     authAttempts |-> 0, rpcs |-> 0, deadlines |-> 0, auth |-> NoResponse,
     logs |-> <<>>, log |-> "none", logAttempts |-> 0,
     response |-> NoResponse]

InitWorkflow == wf = IdleWorkflow

\* determineRegion has not been called
NoRoute == [table |-> <<>>, default |-> "", pan |-> <<>>, result |-> "none"]

\* a nil *proto.AuthRecord
NoRecord == [stan |-> ""]

\* the GetTransaction endpoint has not been called
NoLookup == [stan |-> "", found |-> [record |-> NoRecord, err |-> FALSE],
             called |-> FALSE, result |-> [record |-> NoRecord, err |-> ""]]

\* no Analyze call has been made
NoAnalysis ==
    [Pan |-> <<>>, Amount |-> <<>>, verdict |-> "none", velocity |-> FALSE,
     before |-> <<>>]

\* the activity executions of one worker
Activities == 1..NumActivities

\* an activity slot that runs no CheckTransaction
IdleActivity == [pc |-> "idle", Pan |-> <<>>, now |-> 0, recent |-> <<>>, ret |-> FALSE]

\* NewSimpleFraudAnalyzer: recentTransactions is an empty map
InitFraud ==
    fa = [clock |-> 0, recentTransactions |-> <<>>,
          call |-> NoAnalysis, checked |-> <<>>,
          act |-> [a \in Activities |-> IdleActivity], fatal |-> FALSE]

\* the tasks that use the fields of one Server: Start, Shutdown, and the
\* handleConnection task of each socket
Tasks == {"Start", "Shutdown"} \cup Sockets

\* a task that is inside no access
NoAccess == [obj |-> "none", kind |-> "none", raced |-> FALSE]

\* NewServer and net.Listen: the table is empty, isShutdown is false, Start
\* is at the test of its loop, no other task runs
InitTable ==
    ct = [isShutdown |-> FALSE, listener |-> "open", connections |-> {},
          pc |-> [t \in Tasks |-> IF t = "Start" THEN "test" ELSE "none"],
          cur |-> [t \in Tasks |-> "none"],
          acc |-> [t \in Tasks |-> NoAccess],
          fatal |-> FALSE]

\* the tasks that take the router's locks: two connection tasks in
\* HandleMessage and a health probe
HandlerTasks == {"handler1", "handler2"}
ProbeTasks == {"probe"}
LockTasks == HandlerTasks \cup ProbeTasks

\* a sync.RWMutex: the writer that has announced itself (w), whether it has
\* the lock (held) or still waits for the readers to leave, and the readers
FreeMutex == [w |-> "none", held |-> FALSE, readers |-> {}]

\* NewRouter: every mutex is free and no task is in a call
InitLocks ==
    lk = [mu |-> [m \in {"healthMutex"} \cup Regions |-> FreeMutex],
          todo |-> [t \in LockTasks |-> <<>>]]

\* NewServer: nothing is accepted yet, isShutdown is false
InitServer ==
    /\ srv = [isShutdown |-> FALSE, listener |-> "open", connections |-> {},
              loop |-> "accept"]
    /\ sc = [c \in Sockets |-> NoSocket]

Init ==
    /\ now = 0
    /\ InitHealth
    /\ rq = FrameUS
    /\ reply = NoReply
    /\ InitRouter
    /\ InitServer
    /\ InitWorkflow
    /\ InitFraud
    /\ InitTable
    /\ InitLocks
    /\ dr = NoRoute
    /\ gt = NoLookup

Tick ==
    /\ now + TickSeconds <= MaxTime
    /\ now' = now + TickSeconds
    /\ tripTime' = TripsAt(now')
    /\ acct' = NoAcct
    /\ UNCHANGED <<lk, ct, fa, gt, dr, wf, serverVars, healthVars, replyVars, regionHealth, conn, jobs, store, hrun>>

DoRecordSuccess ==
    /\ rh' = RecordSuccess(rh, now)
    /\ ev' = Event("RecordSuccess", rh, TRUE)
    /\ streak' = StreakAfter(rh')
    /\ UNCHANGED <<lk, ct, fa, gt, dr, wf, serverVars, now, tpc, replyVars, routerVars, acct>>

DoRecordFailure ==
    /\ Len(rh.RecentErrors) < MaxErrors
    /\ rh' = RecordFailure(rh, now)
    /\ ev' = Event("RecordFailure", rh, TRUE)
    /\ streak' = IF streak >= 0 THEN streak + 1 ELSE -1
    /\ UNCHANGED <<lk, ct, fa, gt, dr, wf, serverVars, now, tpc, replyVars, routerVars, acct>>

DoGetState ==
    /\ ev' = Event("GetState", rh, GetState(rh) = rh.State)
    /\ UNCHANGED <<lk, ct, fa, gt, dr, wf, serverVars, now, rh, streak, tpc, replyVars, routerVars, acct>>

\* IsHealthy with no other call between its critical sections
DoIsHealthy ==
    /\ rh' = IsHealthy(rh, now).h
    /\ ev' = Event("IsHealthy", rh, IsHealthy(rh, now).ret)
    /\ streak' = IF rh' = rh THEN streak ELSE StreakAfter(rh')
    /\ UNCHANGED <<lk, ct, fa, gt, dr, wf, serverVars, now, tpc, replyVars, routerVars, acct>>

NextHealth ==
    \/ Tick
    \/ DoRecordSuccess
    \/ DoRecordFailure
    \/ DoGetState
    \/ DoIsHealthy

\* one RegionHealth, its calls made one after the other
SpecHealth == Init /\ [][NextHealth]_vars

(***************************************************************************)
(* One RegionHealth read by the health gauge (GetHealth) while the clock   *)
(* runs past ErrorWindow.                                                  *)
(***************************************************************************)
TickWindow ==
    /\ now + TickSeconds <= MaxWindowTime
    /\ now' = now + TickSeconds
    /\ tripTime' = TripsAt(now')
    /\ acct' = NoAcct
    /\ UNCHANGED <<lk, ct, fa, gt, dr, wf, serverVars, healthVars, replyVars, regionHealth, conn, jobs, store, hrun>>

\* GetHealth: a read under the read lock; the tracker is left as it is
DoGetHealth ==
    /\ ev' = Event("GetHealth", rh, GetHealth(rh) \in 0..10)
    /\ UNCHANGED <<lk, ct, fa, gt, dr, wf, serverVars, now, rh, streak, tpc, replyVars, routerVars, acct>>

NextWindow ==
    \/ TickWindow
    \/ DoRecordSuccess
    \/ DoRecordFailure
    \/ DoGetHealth

SpecWindow == Init /\ [][NextWindow]_vars

(***************************************************************************)
(* Concurrent callers of one RegionHealth.  Every critical section of      *)
(* health.go is one step; IsHealthy gives up its read lock before it takes *)
(* the write lock, and gives up the write lock before it reads the state   *)
(* it returns, so other calls run in between.                              *)
(***************************************************************************)
\* rh.mutex.RLock(); the test; without transition the result is read at once
IsHealthyCheck(t) ==
    /\ tpc[t] = "idle"
    /\ IF ShouldTryHalfOpen(rh, now)
       THEN /\ tpc' = [tpc EXCEPT ![t] = "upgrade"]
            /\ UNCHANGED ev
       ELSE /\ ev' = Event("IsHealthy", rh, HealthyState(rh))
            /\ UNCHANGED tpc
    /\ UNCHANGED <<lk, ct, fa, gt, dr, wf, serverVars, now, rh, streak, replyVars, routerVars, acct>>

\* rh.mutex.RUnlock(); rh.mutex.Lock(); the two writes; rh.mutex.Unlock()
IsHealthyWrite(t) ==
    /\ tpc[t] = "upgrade"
    /\ rh' = SetHalfOpen(rh, now)
    /\ tpc' = [tpc EXCEPT ![t] = "reread"]
    /\ streak' = StreakAfter(rh')
    /\ UNCHANGED <<lk, ct, fa, gt, dr, wf, serverVars, now, ev, replyVars, routerVars, acct>>

\* rh.mutex.RLock(); return State == Closed || State == HalfOpen; RUnlock
IsHealthyReturn(t) ==
    /\ tpc[t] = "reread"
    /\ ev' = Event("IsHealthy", rh, HealthyState(rh))
    /\ tpc' = [tpc EXCEPT ![t] = "idle"]
    /\ UNCHANGED <<lk, ct, fa, gt, dr, wf, serverVars, now, rh, streak, replyVars, routerVars, acct>>

NextConc ==
    \/ Tick
    \/ DoRecordSuccess
    \/ DoRecordFailure
    \/ DoGetState
    \/ \E t \in Threads : IsHealthyCheck(t)
    \/ \E t \in Threads : IsHealthyWrite(t)
    \/ \E t \in Threads : IsHealthyReturn(t)

SpecConc == Init /\ [][NextConc]_vars

(***************************************************************************)
(* The router.  A connection task reads a frame and runs HandleMessage on  *)
(* it; the probes of checkAllRegionsHealth and the detached audit writes   *)
(* run beside it.  r.healthMutex is held shared around each IsHealthy of   *)
(* HandleMessage and exclusively around each RecordSuccess / RecordFailure *)
(* and around the IsHealthy of a probe.                                    *)
(***************************************************************************)
\* no HandleMessage holds r.healthMutex.RLock: a writer can take the lock
NoReader ==
    \A c \in Conns : conn[c].pc \notin {"pUpgrade", "pReread", "fUpgrade", "fReread"}

\* hrun once an RPC to region has ended with outcome and the trackers have
\* become health: the run of failures is counted up to FailureThreshold
RunAfter(region, outcome, health) ==
    IF region \notin DOMAIN hrun THEN hrun
    ELSE [hrun EXCEPT ![region] =
            IF outcome = "ok"
            THEN (IF health[region].State = CircuitClosed THEN 0 ELSE -1)
            ELSE IF @ >= 0 /\ @ < FailureThreshold THEN @ + 1 ELSE -1]

\* tripTime: set when the run reaches FailureThreshold
TripAfter(region, run) ==
    IF region \in DOMAIN tripTime /\ run[region] = FailureThreshold
    THEN [tripTime EXCEPT ![region] = now]
    ELSE tripTime

\* HandleMessage once primaryHealthy is known: on to the failover map, or the
\* primary is the target
AfterPrimary(cr, primaryHealthy) ==
    IF ~primaryHealthy /\ cr.primary \in DOMAIN FailoverMap
    THEN [cr EXCEPT !.pH = primaryHealthy, !.pc = "failover"]
    ELSE [cr EXCEPT !.pH = primaryHealthy, !.pc = "dispatch",
                    !.target = TargetRegion(cr.primary, primaryHealthy, FALSE)]

\* HandleMessage once failoverHealthy is known
AfterFailover(cr, failoverHealthy) ==
    [cr EXCEPT !.fChecked = TRUE, !.fH = failoverHealthy, !.pc = "dispatch",
               !.target = TargetRegion(cr.primary, cr.pH, failoverHealthy),
               !.region = IF failoverHealthy THEN FailoverMap[cr.primary] ELSE @]

\* the chaos engine injects a fault: HandleMessage returns its error
HM_Chaos(c, f) ==
    /\ ChaosEnabled
    /\ conn[c].pc = "idle" /\ conn[c].reads < MaxFrames
    /\ conn' = [conn EXCEPT ![c] = [@ EXCEPT !.pc = "reply", !.reads = @ + 1,
                                       !.message = f,
                                       !.result = [kind |-> "error"]]]
    /\ UNCHANGED <<lk, ct, fa, gt, dr, wf, serverVars, now, healthVars, replyVars, regionHealth, jobs, store,
                   hrun, tripTime>>
    /\ acct' = NoAcct

\* the frame is read and unpacked; isoToAuthRequest; determineRegion; the
\* first critical section of IsHealthy on the primary region's tracker
HM_Start(c, f) ==
    /\ conn[c].pc = "idle" /\ conn[c].reads < MaxFrames
    /\ \E p \in determineRegion(isoToAuthRequest(f).Pan) \ {"panic"} :
         LET cr == [conn[c] EXCEPT !.reads = @ + 1, !.message = f,
                        !.primary = p, !.target = p, !.region = p,
                        !.tripped = (p \in Regions /\ tripTime[p] >= 0
                                     /\ now - tripTime[p] <= ResetTimeout)]
         IN  conn' = [conn EXCEPT ![c] =
                 IF p \notin DOMAIN regionHealth THEN AfterPrimary(cr, FALSE)
                 ELSE IF ShouldTryHalfOpen(regionHealth[p], now)
                      THEN [cr EXCEPT !.pc = "pUpgrade"]
                      ELSE AfterPrimary(cr, HealthyState(regionHealth[p]))]
    /\ UNCHANGED <<lk, ct, fa, gt, dr, wf, serverVars, now, healthVars, replyVars, regionHealth, jobs, store,
                   hrun, tripTime>>
    /\ acct' = NoAcct

\* IsHealthy on the primary: the write under the tracker's write lock
HM_PrimaryWrite(c) ==
    /\ conn[c].pc = "pUpgrade"
    /\ regionHealth' = [regionHealth EXCEPT ![conn[c].primary] =
                                          Tracked(SetHalfOpen(@, now))]
    /\ hrun' = [hrun EXCEPT ![conn[c].primary] = -1]
    /\ conn' = [conn EXCEPT ![c].pc = "pReread"]
    /\ acct' = NoAcct
    /\ UNCHANGED <<lk, ct, fa, gt, dr, wf, serverVars, now, healthVars, replyVars, jobs, store, tripTime>>

\* IsHealthy on the primary: the state read again and returned
HM_PrimaryReturn(c) ==
    /\ conn[c].pc = "pReread"
    /\ conn' = [conn EXCEPT ![c] =
                   AfterPrimary(@, HealthyState(regionHealth[conn[c].primary]))]
    /\ UNCHANGED <<lk, ct, fa, gt, dr, wf, serverVars, now, healthVars, replyVars, regionHealth, jobs, store,
                   hrun, tripTime>>
    /\ acct' = NoAcct

\* the failover map has an entry: the first critical section of IsHealthy on
\* the failover region's tracker
HM_CheckFailover(c) ==
    /\ conn[c].pc = "failover"
    /\ LET fr == FailoverMap[conn[c].primary]
       IN  conn' = [conn EXCEPT ![c] =
               IF fr \notin DOMAIN regionHealth THEN AfterFailover(@, FALSE)
               ELSE IF ShouldTryHalfOpen(regionHealth[fr], now)
                    THEN [@ EXCEPT !.pc = "fUpgrade"]
                    ELSE AfterFailover(@, HealthyState(regionHealth[fr]))]
    /\ UNCHANGED <<lk, ct, fa, gt, dr, wf, serverVars, now, healthVars, replyVars, regionHealth, jobs, store,
                   hrun, tripTime>>
    /\ acct' = NoAcct

HM_FailoverWrite(c) ==
    /\ conn[c].pc = "fUpgrade"
    /\ LET fr == FailoverMap[conn[c].primary]
       IN  /\ regionHealth' = [regionHealth EXCEPT ![fr] = Tracked(SetHalfOpen(@, now))]
           /\ hrun' = [hrun EXCEPT ![fr] = -1]
    /\ conn' = [conn EXCEPT ![c].pc = "fReread"]
    /\ acct' = NoAcct
    /\ UNCHANGED <<lk, ct, fa, gt, dr, wf, serverVars, now, healthVars, replyVars, jobs, store, tripTime>>

HM_FailoverReturn(c) ==
    /\ conn[c].pc = "fReread"
    /\ conn' = [conn EXCEPT ![c] =
          AfterFailover(@, HealthyState(regionHealth[FailoverMap[conn[c].primary]]))]
    /\ UNCHANGED <<lk, ct, fa, gt, dr, wf, serverVars, now, healthVars, replyVars, regionHealth, jobs, store,
                   hrun, tripTime>>
    /\ acct' = NoAcct

\* HandleMessage that counts a missing client as a failure of the default
\* region before it returns the error
HM_Dispatch_CountsFailure(c) ==
    /\ conn[c].pc = "dispatch"
    /\ conn' = [conn EXCEPT ![c] =
                   IF conn[c].target \in Clients
                   THEN [@ EXCEPT !.pc = "rpc"]
                   ELSE [@ EXCEPT !.pc = "reply", !.result = [kind |-> "error"]]]
    /\ regionHealth' =
           IF conn[c].target \in Clients THEN regionHealth
           ELSE [regionHealth EXCEPT
                    ![DefaultRegion] = Tracked(RecordFailure(@, now))]
    /\ UNCHANGED <<lk, ct, fa, gt, dr, wf, serverVars, now, healthVars, replyVars, jobs, store,
                   hrun, tripTime>>
    /\ acct' = NoAcct

\* the client of the target region is looked up and the RPC is placed;
\* without client HandleMessage returns an error
HM_Dispatch(c) ==
    /\ conn[c].pc = "dispatch"
    /\ conn' = [conn EXCEPT ![c] =
                   IF conn[c].target \in Clients
                   THEN [@ EXCEPT !.pc = "rpc"]
                   ELSE [@ EXCEPT !.pc = "reply", !.result = [kind |-> "error"]]]
    /\ UNCHANGED <<lk, ct, fa, gt, dr, wf, serverVars, now, healthVars, replyVars, regionHealth, jobs, store,
                   hrun, tripTime>>
    /\ acct' = NoAcct

\* main.go always hands the router a metrics collector
MetricsConfigured == TRUE

\* the detached audit write spawned for a reply: the arguments of
\* SaveAuthorization, and the call it comes from
AuditJob(cr, authRequest, approved) ==
    [auth |-> authRequest, region |-> cr.target, approved |-> approved,
     primary |-> cr.primary, tripped |-> cr.tripped, fH |-> cr.fH]

\* client.ProcessAuth returns; RecordSuccess or RecordFailure under
\* r.healthMutex; the reply frame, the timeout decline or the error; the audit
\* write is spawned for a reply
HM_RpcReturn(c, outcome) ==
    /\ conn[c].pc = "rpc"
    /\ NoReader
    /\ LET cr == conn[c]
           authRequest == [isoToAuthRequest(cr.message) EXCEPT !.Region = cr.region]
           response == ProcessAuth(cr.target, authRequest)
           calls == HealthCalls(DOMAIN regionHealth, cr.target, outcome)
           health == ApplyCalls(regionHealth, calls, now)
           run == RunAfter(cr.target, outcome, health)
       IN  /\ regionHealth' = health
           /\ hrun' = run
           /\ tripTime' = TripAfter(cr.target, run)
           /\ acct' = [by |-> c, region |-> cr.target, outcome |-> outcome,
                       calls |-> calls,
                       changed |-> {r \in Regions : health[r] # regionHealth[r]}]
           /\ conn' = [conn EXCEPT ![c] =
                  [@ EXCEPT !.pc = "reply", !.outcome = outcome,
                            !.result = RpcResult(outcome, response, cr.message)]]
           /\ jobs' = IF outcome = "ok" /\ StorageConfigured
                      THEN jobs \cup {AuditJob(cr, authRequest,
                                               response.ResponseCode = "00")}
                      ELSE jobs
    /\ UNCHANGED <<lk, ct, fa, gt, dr, wf, serverVars, now, healthVars, replyVars, store>>

\* processMessage: a frame returned by HandleMessage is packed and written on
\* the connection, and the task reads on; on an error handleConnection
\* returns, which closes the connection
Srv_Reply(c) ==
    /\ conn[c].pc = "reply"
    /\ conn' = [conn EXCEPT ![c] =
          IF conn[c].result.kind = "frame"
          THEN [IdleConn EXCEPT !.reads = conn[c].reads,
                                !.out = Append(conn[c].out, conn[c].result.frame)]
          ELSE [IdleConn EXCEPT !.pc = "closed", !.reads = conn[c].reads,
                                !.out = conn[c].out]]
    /\ UNCHANGED <<lk, ct, fa, gt, dr, wf, serverVars, now, healthVars, replyVars, regionHealth, jobs, store,
                   hrun, tripTime>>
    /\ acct' = NoAcct

\* checkAllRegionsHealth, the task of one region: the probe's RPC is placed
\* and returns (it touches no shared state until then); RecordSuccess or
\* RecordFailure, then IsHealthy for the gauge, all under r.healthMutex.Lock
Probe(r, outcome) ==
    /\ r \in Clients
    /\ NoReader
    /\ LET calls == HealthCalls(DOMAIN regionHealth, r, outcome)
           health == ApplyCalls(regionHealth, calls, now)
           gauged == IF MetricsConfigured
                     THEN [health EXCEPT ![r] = Tracked(IsHealthy(@, now).h)]
                     ELSE health
           run == RunAfter(r, outcome, gauged)
       IN  /\ regionHealth' = gauged
           /\ hrun' = run
           /\ tripTime' = TripAfter(r, run)
           /\ acct' = [by |-> "probe", region |-> r, outcome |-> outcome,
                       calls |-> calls,
                       changed |-> {x \in Regions : gauged[x] # regionHealth[x]}]
    /\ UNCHANGED <<lk, ct, fa, gt, dr, wf, serverVars, now, healthVars, replyVars, conn, jobs, store>>

\* the audit row of a SaveAuthorization call
AuditRow(j) ==
    [stan |-> j.auth.Stan, pan |-> j.auth.Pan, amount |-> j.auth.Amount,
     region |-> j.region, approved |-> j.approved,
     transmission_time |-> j.auth.TransmissionTime]

\* the store commits a row under its key, in place of a row with that key
SaveAuthorization(rows, j) ==
    [k \in DOMAIN rows \cup {j.auth.Stan} |->
        IF k = j.auth.Stan THEN AuditRow(j) ELSE rows[k]]

\* a detached audit write commits its row
AuditSave(j) ==
    /\ j \in jobs
    /\ store' = SaveAuthorization(store, j)
    /\ jobs' = jobs \ {j}
    /\ UNCHANGED <<lk, ct, fa, gt, dr, wf, serverVars, now, healthVars, replyVars, regionHealth, conn,
                   hrun, tripTime>>
    /\ acct' = NoAcct

\* storeCtx is cancelled when HandleMessage returns (defer cancel()): a write
\* that has not committed by then fails with the context's error
AuditCancelled(j) ==
    /\ j \in jobs
    /\ jobs' = jobs \ {j}
    /\ UNCHANGED <<lk, ct, fa, gt, dr, wf, serverVars, now, healthVars, replyVars, regionHealth, conn, store,
                   hrun, tripTime>>
    /\ acct' = NoAcct

NextRouter ==
    \/ Tick
    \/ \E c \in Conns, f \in Frames : HM_Chaos(c, f)
    \/ \E c \in Conns, f \in Frames : HM_Start(c, f)
    \/ \E c \in Conns : HM_PrimaryWrite(c)
    \/ \E c \in Conns : HM_PrimaryReturn(c)
    \/ \E c \in Conns : HM_CheckFailover(c)
    \/ \E c \in Conns : HM_FailoverWrite(c)
    \/ \E c \in Conns : HM_FailoverReturn(c)
    \/ \E c \in Conns : HM_Dispatch(c)
    \/ \E c \in Conns, o \in Outcomes : HM_RpcReturn(c, o)
    \/ \E c \in Conns : Srv_Reply(c)
    \/ \E r \in Regions, o \in Outcomes : Probe(r, o)
    \/ \E j \in jobs : AuditSave(j)
    \/ \E j \in jobs : AuditCancelled(j)

SpecRouter == Init /\ [][NextRouter]_vars

\* the router and the server when the frames clients send are of the
\* high-risk BIN
NextRisk ==
    \/ Tick
    \/ \E c \in Conns : HM_Chaos(c, FrameRisk)
    \/ \E c \in Conns : HM_Start(c, FrameRisk)
    \/ \E c \in Conns : HM_PrimaryWrite(c)
    \/ \E c \in Conns : HM_PrimaryReturn(c)
    \/ \E c \in Conns : HM_CheckFailover(c)
    \/ \E c \in Conns : HM_FailoverWrite(c)
    \/ \E c \in Conns : HM_FailoverReturn(c)
    \/ \E c \in Conns : HM_Dispatch(c)
    \/ \E c \in Conns, o \in Outcomes : HM_RpcReturn(c, o)
    \/ \E c \in Conns : Srv_Reply(c)
    \/ \E r \in Regions, o \in Outcomes : Probe(r, o)
    \/ \E j \in jobs : AuditSave(j)
    \/ \E j \in jobs : AuditCancelled(j)

SpecRisk == Init /\ [][NextRisk]_vars

(***************************************************************************)
(* The replies to one inbound message, each computed as its code path      *)
(* computes it: the translated processor response, the dispatcher's        *)
(* timeout decline, the workflow's declines.                               *)
(***************************************************************************)
\* the characters the mti of a request is drawn from
MtiChars == {"0", "1", "2", "8"}

\* field 0 is a fixed field of four characters
MtiLen == 4
Mtis == [1..MtiLen -> MtiChars]

ReplyRequests ==
    {Frame(m, f[2], f[4], f[7], f[11]) : m \in Mtis, f \in {FrameUS, FrameEU}}

InitReply ==
    /\ now = 0
    /\ InitHealth
    /\ rq \in ReplyRequests
    /\ reply = NoReply
    /\ InitRouter
    /\ InitServer
    /\ InitWorkflow
    /\ InitFraud
    /\ InitTable
    /\ InitLocks
    /\ dr = NoRoute
    /\ gt = NoLookup

\* the processor of a region answers and authResponseToIso translates
ReplyProcessor(region) ==
    /\ reply.by = "none"
    /\ LET authRequest == [isoToAuthRequest(rq) EXCEPT !.Region = region]
           frame == RpcResult("ok", ProcessAuth(region, authRequest), rq).frame
       IN  reply' = [by |-> "processor", mti |-> frame[0], code |-> frame[39],
                     frame |-> frame]
    /\ UNCHANGED <<lk, ct, fa, gt, dr, wf, serverVars, now, healthVars, rq, routerVars, acct>>

\* the RPC runs out of time and createTimeoutResponse answers
ReplyTimeout ==
    /\ reply.by = "none"
    /\ LET frame == RpcResult("deadline", <<>>, rq).frame
       IN  reply' = [by |-> "timeout", mti |-> frame[0], code |-> frame[39],
                     frame |-> frame]
    /\ UNCHANGED <<lk, ct, fa, gt, dr, wf, serverVars, now, healthVars, rq, routerVars, acct>>

\* the responses a processor behind the AuthService interface can send:
\* its pan, amount, transmission time and stan need not be the request's
ForeignResponses ==
    {[Mti |-> <<"0", "1", "1", "0">>, Pan |-> f[2], Amount |-> f[4],
      TransmissionTime |-> f[7], Stan |-> stan, ResponseCode |-> code] :
        f \in {FrameUS, FrameEU}, stan \in {"000001", "999999"},
        code \in {"00", "05"}}

\* a processor answers with a response of its own making and
\* authResponseToIso translates it
ReplyForeign(response) ==
    /\ reply.by = "none"
    /\ LET frame == RpcResult("ok", response, rq).frame
       IN  reply' = [by |-> "foreign", mti |-> frame[0], code |-> frame[39],
                     frame |-> frame, response |-> response]
    /\ UNCHANGED <<lk, ct, fa, gt, dr, wf, serverVars, now, healthVars, rq, routerVars, acct>>

\* the workflow declines: "59" after a fraud reject, "96" after the
\* authorization has failed
ReplyWorkflowDecline(code) ==
    /\ reply.by = "none"
    /\ LET response == DeclineResponse(isoToAuthRequest(rq), code)
       IN  reply' = [by |-> "workflow", mti |-> response.Mti,
                     code |-> response.ResponseCode]
    /\ UNCHANGED <<lk, ct, fa, gt, dr, wf, serverVars, now, healthVars, rq, routerVars, acct>>

NextReply ==
    \/ \E region \in Regions : ReplyProcessor(region)
    \/ ReplyTimeout
    \/ \E response \in ForeignResponses : ReplyForeign(response)
    \/ \E code \in {"59", "96"} : ReplyWorkflowDecline(code)

SpecReply == InitReply /\ [][NextReply]_vars

(***************************************************************************)
(* iso/server.go: the TCP server.  The accept loop of Start, one           *)
(* handleConnection task per socket, Shutdown.  The handler is the         *)
(* router's HandleMessage; it appears here by the values it returns.       *)
(***************************************************************************)
\* what a client can send as the body of a frame: the bytes of a message, or
\* bytes that are no message of the spec
WireFrames ==
    {[bytes |-> "message", message |-> f] : f \in {FrameUS, FrameEU}}
    \cup {[bytes |-> "malformed", message |-> <<>>]}

\* message.Unpack(messageBytes)
Unpack(wire) ==
    IF wire.bytes = "message" THEN [ok |-> TRUE, message |-> wire.message]
    ELSE [ok |-> FALSE, message |-> <<>>]

\* the values HandleMessage can return for a message: the translated reply
\* of the processor of a target region, the timeout decline, or an error
\* (chaos fault, no client, RPC error, conversion error)
HandleMessageResults(message) ==
    LET authRequest == isoToAuthRequest(message)
    IN  {RpcResult(outcome,
                   ProcessAuth(target, [authRequest EXCEPT !.Region = target]),
                   message) : outcome \in Outcomes, target \in Clients}
        \cup {[kind |-> "error"]}

\* the values HandleMessage can return at all
HandlerResults ==
    UNION {HandleMessageResults(Unpack(wire).message) :
              wire \in {w \in WireFrames : Unpack(w).ok}}

\* a connection task that reads the next frame while a message is in hand
CanRead_Pipelined(d) == d.pc \in {"read", "handling"}

\* handleConnection reads at the top of its loop only, after processMessage
\* has returned nil
CanRead(d) == d.pc = "read"

\* handleConnection returns: the deferred function closes the socket and
\* deletes the entry of the connections table
Exit(c, d, why) ==
    /\ sc' = [sc EXCEPT ![c] = [d EXCEPT !.pc = "closed", !.sock = "closed",
                                         !.closedBy = why]]
    /\ srv' = [srv EXCEPT !.connections = @ \ {c}]

\* Start: listener.Accept() returns a connection
Start_Accept(c) ==
    /\ srv.loop = "accept"
    /\ srv.listener = "open"
    /\ sc[c].pc = "none"
    /\ sc' = [sc EXCEPT ![c] = [@ EXCEPT !.pc = "accepted", !.sock = "open"]]
    /\ srv' = [srv EXCEPT !.loop = "accepted"]
    /\ UNCHANGED <<lk, ct, fa, gt, dr, wf, now, healthVars, replyVars, routerVars, acct>>

\* Start: listener.Accept() fails on the closed listener; isShutdown is set,
\* so Start returns
Start_AcceptError ==
    /\ srv.loop = "accept"
    /\ srv.listener = "closed"
    /\ srv' = [srv EXCEPT !.loop = IF srv.isShutdown THEN "returned" ELSE "accept"]
    /\ UNCHANGED <<lk, ct, fa, gt, dr, wf, now, healthVars, replyVars, routerVars, acct, sc>>

\* Start: the accepted connection is stored in the table and its task is
\* started; then the condition of the loop is tested
Start_Spawn(c) ==
    /\ srv.loop = "accepted"
    /\ sc[c].pc = "accepted"
    /\ sc' = [sc EXCEPT ![c] = [@ EXCEPT !.pc = "read"]]
    /\ srv' = [srv EXCEPT !.connections = @ \cup {c},
                          !.loop = IF srv.isShutdown THEN "returned" ELSE "accept"]
    /\ UNCHANGED <<lk, ct, fa, gt, dr, wf, now, healthVars, replyVars, routerVars, acct>>

\* Shutdown: isShutdown is set, the listener is closed, every connection of
\* the table is closed and deleted
Shutdown ==
    /\ ~srv.isShutdown
    /\ srv' = [srv EXCEPT !.isShutdown = TRUE, !.listener = "closed",
                          !.connections = {}]
    /\ sc' = [c \in Sockets |->
                IF c \in srv.connections THEN [sc[c] EXCEPT !.sock = "closed"]
                ELSE sc[c]]
    /\ UNCHANGED <<lk, ct, fa, gt, dr, wf, now, healthVars, replyVars, routerVars, acct>>

\* handleConnection: a frame is read whole, processMessage unpacks it and
\* hands the message to the handler; when Unpack fails processMessage
\* returns the error and handleConnection returns
hc_Read(c, wire) ==
    /\ CanRead(sc[c])
    /\ sc[c].sock = "open"
    /\ Len(sc[c].reads) < MaxReads
    /\ LET d == [sc[c] EXCEPT !.reads = Append(@, wire)]
           message == Unpack(wire)
       IN  IF message.ok
           THEN /\ sc' = [sc EXCEPT ![c] = [d EXCEPT !.pc = "handling",
                                                    !.message = message.message]]
                /\ UNCHANGED srv
           ELSE Exit(c, d, "unpack")
    /\ UNCHANGED <<lk, ct, fa, gt, dr, wf, now, healthVars, replyVars, routerVars, acct>>

\* handleConnection: the read fails (the socket was closed, the peer closed
\* it, or the 30 s read deadline passed) and handleConnection returns
hc_ReadError(c) ==
    /\ sc[c].pc = "read"
    /\ Exit(c, sc[c], "read")
    /\ UNCHANGED <<lk, ct, fa, gt, dr, wf, now, healthVars, replyVars, routerVars, acct>>

\* processMessage: HandleMessage returns; on an error processMessage returns
\* it and handleConnection returns
pm_Handler(c, result) ==
    /\ sc[c].pc = "handling"
    /\ result \in HandleMessageResults(sc[c].message)
    /\ IF result.kind = "frame"
       THEN /\ sc' = [sc EXCEPT ![c] = [@ EXCEPT !.pc = "write",
                                                 !.response = result.frame]]
            /\ UNCHANGED srv
       ELSE Exit(c, sc[c], "handler")
    /\ UNCHANGED <<lk, ct, fa, gt, dr, wf, now, healthVars, replyVars, routerVars, acct>>

\* processMessage: the response is packed and written with its length; a
\* write on a closed socket fails and handleConnection returns
pm_Write(c) ==
    /\ sc[c].pc = "write"
    /\ IF sc[c].sock = "open"
       THEN /\ sc' = [sc EXCEPT ![c] = [@ EXCEPT !.pc = "read",
                                                 !.out = Append(@, sc[c].response),
                                                 !.message = <<>>,
                                                 !.response = <<>>]]
            /\ UNCHANGED srv
       ELSE Exit(c, sc[c], "write")
    /\ UNCHANGED <<lk, ct, fa, gt, dr, wf, now, healthVars, replyVars, routerVars, acct>>

NextServer ==
    \/ \E c \in Sockets : Start_Accept(c)
    \/ Start_AcceptError
    \/ \E c \in Sockets : Start_Spawn(c)
    \/ Shutdown
    \/ \E c \in Sockets, wire \in WireFrames : hc_Read(c, wire)
    \/ \E c \in Sockets : hc_ReadError(c)
    \/ \E c \in Sockets, result \in HandlerResults : pm_Handler(c, result)
    \/ \E c \in Sockets : pm_Write(c)

SpecServer == Init /\ [][NextServer]_vars

(***************************************************************************)
(* workflow/: PaymentWorkflow.Execute and the activities it runs.  An      *)
(* activity is attempted until it returns without error or the attempts of *)
(* the retry policy are used up.                                           *)
(***************************************************************************)
\* NewPaymentWorkflow: defaultOptions
EnableFraudCheck == TRUE
MaxRetries == 3

\* a retry policy that allows one attempt more
MaximumAttempts_OneMore == MaxRetries + 1

\* Execute: retryPolicy.MaximumAttempts, the attempts an activity is given
MaximumAttempts == MaxRetries

\* the worker is given a fraud analyzer
FraudAnalyzerConfigured == TRUE

\* NewSimpleFraudAnalyzer: the high-risk BINs and the amount threshold
highRiskBins ==
    {<<"4", "3", "1", "2", "7", "4">>, <<"5", "5", "7", "7", "8", "8">>}
amountThreshold == 1000

\* SimpleFraudAnalyzer.Analyze, velocity being the result of checkVelocity:
\* an amount that does not parse is an error; a high-risk BIN with an amount
\* over half the threshold is rejected; an amount over the threshold is
\* approved; else the velocity check decides
Analyze(request, velocity) ==
    LET cardBin == IF Len(request.Pan) >= 6 THEN Take(request.Pan, 6) ELSE <<>>
        amount == ParseFloat(request.Amount)
    IN  IF ~amount.ok THEN "error"
        ELSE IF cardBin \in highRiskBins /\ 2 * amount.v > amountThreshold
        THEN "rejected"
        ELSE IF amount.v > amountThreshold THEN "approved"
        ELSE IF velocity THEN "rejected"
        ELSE "approved"

\* the getRegionFunc the worker registers returns the default region
getRegionFunc(pan) == DefaultRegion

\* the requests a workflow run is started with: the requests of the three
\* frames, with and without a region of their own, a request with a message
\* type that is no request's, one with a short message type, one with a
\* short pan
WorkflowRequests ==
    {[isoToAuthRequest(f) EXCEPT !.Region = region] :
        f \in {FrameUS, FrameEU}, region \in {"", "eu_west", "ap_south"}}
    \cup {isoToAuthRequest([FrameUS EXCEPT ![0] = mti]) :
            mti \in {<<"0", "2", "0", "0">>, <<"0", "1", "2", "1">>, <<"0", "1">>}}
    \cup {isoToAuthRequest([FrameUS EXCEPT ![2] = <<"4", "1", "1">>])}

\* Execute, the start: request.Pan[:6] panics on a pan shorter than six
\* characters; the region is the request's, or getRegionFunc's
Execute_Start(request) ==
    /\ wf.pc = "idle"
    /\ wf' = IF Len(request.Pan) < 6
             THEN [wf EXCEPT !.pc = "panicked", !.request = request]
             ELSE [wf EXCEPT
                     !.pc = IF EnableFraudCheck THEN "screen" ELSE "auth",
                     !.request = request,
                     !.region = IF request.Region # "" THEN request.Region
                                ELSE getRegionFunc(request.Pan)]
    /\ UNCHANGED <<lk, ct, fa, gt, dr, now, healthVars, replyVars, routerVars, acct, serverVars>>

\* LogTransaction is scheduled with the response and the additional info
Scheduled(w, response, info) ==
    [w EXCEPT !.logs = Append(@, [response |-> response, info |-> info]),
              !.log = "scheduled"]

\* the workflow that runs the authorization whatever the screen returned
AfterScreen_IgnoreReject(w, result) ==
    [w EXCEPT !.pc = "auth", !.screen = result,
              !.FraudCheckStatus = IF result = "error" THEN "ERROR"
                                   ELSE IF result = "rejected" THEN "REJECTED"
                                   ELSE "APPROVED"]

\* the workflow that declines when the screen has failed
AfterScreen_FailClosed(w, result) ==
    IF result = "approved"
    THEN [w EXCEPT !.pc = "auth", !.screen = result, !.FraudCheckStatus = "APPROVED"]
    ELSE [w EXCEPT !.pc = "returned", !.screen = result,
                   !.FraudCheckStatus = IF result = "error" THEN "ERROR"
                                        ELSE "REJECTED",
                   !.logs = Append(@, [response |-> DeclineResponse(w.request, "59"),
                                       info |-> "fraud_check"]),
                   !.response = DeclineResponse(w.request, "59")]

\* Execute, step 1, once the CheckTransaction activity has ended: on an error
\* the attribute is set and the run goes on; on a reject the "59" response is
\* built, LogTransaction is scheduled and the response is returned
AfterScreen(w, result) ==
    IF result = "error"
    THEN [w EXCEPT !.pc = "auth", !.screen = result, !.FraudCheckStatus = "ERROR"]
    ELSE IF result = "rejected"
    THEN LET response == DeclineResponse(w.request, "59")
         IN  [Scheduled(w, response, "fraud_check") EXCEPT
                 !.pc = "returned", !.screen = result,
                 !.FraudCheckStatus = "REJECTED", !.response = response]
    ELSE [w EXCEPT !.pc = "auth", !.screen = result, !.FraudCheckStatus = "APPROVED"]

\* one attempt of Activities.CheckTransaction: the analyzer approves, rejects
\* or fails; a failed attempt is tried again while attempts are left
CheckTransaction(outcome) ==
    /\ wf.pc = "screen"
    /\ FraudAnalyzerConfigured \/ outcome = "approved"
    /\ LET w == [wf EXCEPT !.screenAttempts = @ + 1]
       IN  wf' = IF outcome = "error" /\ w.screenAttempts < MaximumAttempts
                 THEN w
                 ELSE AfterScreen(w, outcome)
    /\ UNCHANGED <<lk, ct, fa, gt, dr, now, healthVars, replyVars, routerVars, acct, serverVars>>

\* the workflow that declines a run whose authorization needed a retry
AfterAuth_DeclinesRetried(w, ok, response) ==
    IF ~ok \/ w.authAttempts > 1
    THEN LET declined == DeclineResponse(w.request, "96")
         IN  [Scheduled(w, declined, "technical_failure") EXCEPT
                 !.pc = "returned", !.auth = response, !.response = declined]
    ELSE [Scheduled(w, response, "standard") EXCEPT
             !.pc = "returned", !.auth = response, !.response = response,
             !.TransactionStatus = IF response.ResponseCode = "00"
                                   THEN "APPROVED" ELSE "DECLINED"]

\* Execute, steps 2 and 3, once the ProcessAuth activity has ended: on an
\* error the "96" response; else the processor's response; LogTransaction is
\* scheduled and the response is returned
AfterAuth(w, ok, response) ==
    IF ~ok
    THEN LET declined == DeclineResponse(w.request, "96")
         IN  [Scheduled(w, declined, "technical_failure") EXCEPT
                 !.pc = "returned", !.response = declined]
    ELSE [Scheduled(w, response, "standard") EXCEPT
             !.pc = "returned", !.auth = response, !.response = response,
             !.TransactionStatus = IF response.ResponseCode = "00"
                                   THEN "APPROVED" ELSE "DECLINED"]

\* one attempt of Activities.ProcessAuth: without a client for the region it
\* fails before any RPC; else the RPC is placed and its response or its
\* error is returned; a failed attempt is tried again while attempts are left
ProcessAuthActivity(outcome) ==
    /\ wf.pc = "auth"
    /\ wf.region \in Clients \/ outcome = "error"
    /\ LET hasClient == wf.region \in Clients
           w == [wf EXCEPT !.authAttempts = @ + 1,
                           !.rpcs = IF hasClient THEN @ + 1 ELSE @,
                           !.deadlines = IF hasClient /\ outcome = "deadline"
                                         THEN @ + 1 ELSE @]
           ok == hasClient /\ outcome = "ok"
       IN  wf' = IF ~ok /\ w.authAttempts < MaximumAttempts
                 THEN w
                 ELSE AfterAuth(w, ok,
                        IF ok THEN ProcessAuth(wf.region,
                                     [wf.request EXCEPT !.Region = wf.region])
                        ELSE NoResponse)
    /\ UNCHANGED <<lk, ct, fa, gt, dr, now, healthVars, replyVars, routerVars, acct, serverVars>>

\* the worker is given an audit logger
AuditLoggerConfigured == TRUE

\* one attempt of Activities.LogTransaction: the audit logger writes the
\* details or fails.  Execute gives the activity a timeout and no retry
\* policy, so a failed attempt is tried again under the default policy
LogTransaction(outcome) ==
    /\ wf.log = "scheduled"
    /\ wf.logAttempts < MaxLogAttempts
    /\ AuditLoggerConfigured \/ outcome = "ok"
    /\ wf' = [wf EXCEPT !.logAttempts = @ + 1,
                        !.log = IF outcome = "ok" THEN "done" ELSE "scheduled"]
    /\ UNCHANGED <<lk, ct, fa, gt, dr, now, healthVars, replyVars, routerVars, acct, serverVars>>

\* Execute has returned without waiting for the activity it scheduled: the
\* run is closed and the activity is not started (again)
LogTransactionAbandoned ==
    /\ wf.log = "scheduled"
    /\ wf.pc = "returned"
    /\ wf' = [wf EXCEPT !.log = "abandoned"]
    /\ UNCHANGED <<lk, ct, fa, gt, dr, now, healthVars, replyVars, routerVars, acct, serverVars>>

NextWorkflow ==
    \/ \E request \in WorkflowRequests : Execute_Start(request)
    \/ \E outcome \in {"approved", "rejected", "error"} : CheckTransaction(outcome)
    \/ \E outcome \in Outcomes : ProcessAuthActivity(outcome)
    \/ \E outcome \in {"ok", "error"} : LogTransaction(outcome)
    \/ LogTransactionAbandoned

SpecWorkflow == Init /\ [][NextWorkflow]_vars

(***************************************************************************)
(* determineRegion over route tables and pans: the table, the default      *)
(* region and the pan are drawn at the start, the call is made once.       *)
(***************************************************************************)
\* a string of Go as the sequence of its characters
Str6(a, b, c, d, e, f) == <<a, b, c, d, e, f>>

\* the single range entry 400000-499999
RangeTable ==
    (Str6("4", "0", "0", "0", "0", "0") \o <<"-">>
        \o Str6("4", "9", "9", "9", "9", "9")) :> "eu_west"

\* route tables: the configured one; the single range; two prefix keys that
\* both match a bin; keys that are no prefix and no range; a range whose
\* lower bound has seven characters
RouteTables ==
    {BinRoutes,
     RangeTable,
     (<<"4">> :> "us_east") @@ (<<"4", "1">> :> "eu_west"),
     (<<"4", "-", "5", "-", "6">> :> "eu_west") @@ (<<"a", "-", "5">> :> "eu_west")
        @@ (<<"-">> :> "eu_west") @@ (<<"4", "1", "-", "x">> :> "eu_west"),
     (<<"4", "0", "0", "0", "0", "0", "0", "-", "4", "9", "9", "9", "9", "9", "9">>
        :> "eu_west")}

\* pans: at the bounds of the range and next to them, of the configured
\* routes, with a letter, and of fewer than six characters
RoutePans ==
    {Str6("4", "0", "0", "0", "0", "0") \o <<"1">>,
     Str6("4", "9", "9", "9", "9", "9") \o <<"1">>,
     Str6("3", "9", "9", "9", "9", "9") \o <<"1">>,
     Str6("5", "0", "0", "0", "0", "0") \o <<"1">>,
     Str6("4", "5", "0", "0", "0", "0"),
     FrameUS[2], FrameEU[2], FrameAP[2],
     Str6("4", "1", "x", "1", "1", "1") \o <<"1">>,
     <<"4", "1", "1", "1", "1">>,
     <<>>}

InitRegion ==
    /\ now = 0
    /\ InitHealth
    /\ rq = FrameUS
    /\ reply = NoReply
    /\ InitRouter
    /\ InitServer
    /\ InitWorkflow
    /\ InitFraud
    /\ InitTable
    /\ InitLocks
    /\ dr \in {[table |-> t, default |-> "us_east", pan |-> p, result |-> "none"] :
                  t \in RouteTables, p \in RoutePans}
    /\ gt = NoLookup

\* r.determineRegion(pan) returns result, or panics
DetermineRegion(result) ==
    /\ dr.result = "none"
    /\ result \in determineRegionOf(dr.table, dr.default, dr.pan)
    /\ dr' = [dr EXCEPT !.result = result]
    /\ UNCHANGED <<lk, ct, fa, gt, wf, now, healthVars, replyVars, routerVars, acct, serverVars>>

NextRegion ==
    \E result \in {"us_east", "eu_west", "ap_south", "panic"} : DetermineRegion(result)

SpecRegion == InitRegion /\ [][NextRegion]_vars

(***************************************************************************)
(* issuer: wrappedIssuer.GetTransaction over the store (the code is in     *)
(* README.md), and Storage.GetTransaction as the wrapper sees it.          *)
(***************************************************************************)
\* the stores a lookup can find: for each of two requests no row, or its row
\* with a region and an approval
LookupStores ==
    LET rowsOf(f) ==
            {<<>>} \cup
            {f[11] :> AuditRow([auth |-> isoToAuthRequest(f), region |-> r,
                                approved |-> a]) :
                r \in Regions, a \in BOOLEAN}
    IN  {u @@ e : u \in rowsOf(FrameUS), e \in rowsOf(FrameEU)}

LookupStans == {FrameUS[11], FrameEU[11], FrameAP[11]}

\* storage.GetTransaction(ctx, stan): an error when the lookup fails; else
\* the record, or no record and no error when there is none
StorageGetTransaction(rows, stan, fails) ==
    IF fails THEN [record |-> NoRecord, err |-> TRUE]
    ELSE [record |-> IF stan \in DOMAIN rows THEN rows[stan] ELSE NoRecord,
          err |-> FALSE]

\* wrappedIssuer.GetTransaction, after w.storage.GetTransaction has returned
GetTransactionResult(found) ==
    IF ~StorageConfigured
    THEN [record |-> NoRecord, err |-> "storage is not configured"]
    ELSE IF found.err
    THEN [record |-> NoRecord, err |-> "failed to retrieve transaction"]
    ELSE IF found.record = NoRecord
    THEN [record |-> NoRecord, err |-> "transaction not found"]
    ELSE [record |-> found.record, err |-> ""]

InitLookup ==
    /\ now = 0
    /\ InitHealth
    /\ rq = FrameUS
    /\ reply = NoReply
    /\ regionHealth = [r \in Regions |-> NewRegionHealth(0)]
    /\ conn = [c \in Conns |-> IdleConn]
    /\ jobs = {}
    /\ store \in LookupStores
    /\ hrun = [r \in Regions |-> 0]
    /\ tripTime = [r \in Regions |-> -1]
    /\ acct = NoAcct
    /\ InitServer
    /\ InitWorkflow
    /\ InitFraud
    /\ InitTable
    /\ InitLocks
    /\ dr = NoRoute
    /\ gt = NoLookup

\* the GetTransaction endpoint is called for stan
GetTransaction(stan, fails) ==
    /\ ~gt.called
    /\ LET found == StorageGetTransaction(store, stan, fails)
       IN  gt' = [stan |-> stan, found |-> found, called |-> TRUE,
                  result |-> GetTransactionResult(found)]
    /\ UNCHANGED <<lk, ct, fa, dr, wf, now, healthVars, replyVars, routerVars, acct, serverVars>>

NextLookup ==
    \E stan \in LookupStans, fails \in BOOLEAN : GetTransaction(stan, fails)

SpecLookup == InitLookup /\ [][NextLookup]_vars

(***************************************************************************)
(* workflow/implementations.go: SimpleFraudAnalyzer.  One analyzer, its    *)
(* Analyze calls made one after the other; the clock counts minutes.       *)
(***************************************************************************)
velocityThreshold == 3
\* the window of the velocity count and the age at which a timestamp is
\* dropped, in minutes
VelocityWindow == 5
HistoryWindow == 60

\* the timestamps of ts that are less than window old at t
Younger(ts, t, window) == SelectSeq(ts, LAMBDA x : t - x < window)

\* checkVelocity that alerts at the threshold (>= for >)
checkVelocity_AtThreshold(recentTransactions, pan, t) ==
    IF pan \notin DOMAIN recentTransactions
    THEN [recentTransactions |->
              [k \in DOMAIN recentTransactions \cup {pan} |->
                  IF k = pan THEN <<t>> ELSE recentTransactions[k]],
          ret |-> FALSE]
    ELSE LET recent == Append(Younger(recentTransactions[pan], t, HistoryWindow), t)
             recentCount == Len(Younger(recent, t, VelocityWindow))
         IN  [recentTransactions |-> [recentTransactions EXCEPT ![pan] = recent],
              ret |-> recentCount >= velocityThreshold]

\* checkVelocity at time t: the map it leaves and the value it returns
checkVelocity(recentTransactions, pan, t) ==
    IF pan \notin DOMAIN recentTransactions
    THEN [recentTransactions |->
              [k \in DOMAIN recentTransactions \cup {pan} |->
                  IF k = pan THEN <<t>> ELSE recentTransactions[k]],
          ret |-> FALSE]
    ELSE LET recent == Append(Younger(recentTransactions[pan], t, HistoryWindow), t)
             recentCount == Len(Younger(recent, t, VelocityWindow))
         IN  [recentTransactions |-> [recentTransactions EXCEPT ![pan] = recent],
              ret |-> recentCount > velocityThreshold]

\* Analyze whose velocity check comes first
AnalyzeCall_VelocityFirst(recentTransactions, request, t) ==
    LET cardBin == IF Len(request.Pan) >= 6 THEN Take(request.Pan, 6) ELSE <<>>
        amount == ParseFloat(request.Amount)
        v == checkVelocity(recentTransactions, request.Pan, t)
    IN  IF ~amount.ok
        THEN [verdict |-> "error", velocity |-> FALSE,
              recentTransactions |-> recentTransactions]
        ELSE IF v.ret
        THEN [verdict |-> "rejected", velocity |-> TRUE,
              recentTransactions |-> v.recentTransactions]
        ELSE IF cardBin \in highRiskBins /\ 2 * amount.v > amountThreshold
        THEN [verdict |-> "rejected", velocity |-> TRUE,
              recentTransactions |-> v.recentTransactions]
        ELSE [verdict |-> "approved", velocity |-> TRUE,
              recentTransactions |-> v.recentTransactions]

\* Analyze at time t on an analyzer with the map recentTransactions: the
\* verdict, whether checkVelocity was called, and the map left
AnalyzeCall(recentTransactions, request, t) ==
    LET cardBin == IF Len(request.Pan) >= 6 THEN Take(request.Pan, 6) ELSE <<>>
        amount == ParseFloat(request.Amount)
    IN  IF ~amount.ok
        THEN [verdict |-> "error", velocity |-> FALSE,
              recentTransactions |-> recentTransactions]
        ELSE IF cardBin \in highRiskBins /\ 2 * amount.v > amountThreshold
        THEN [verdict |-> "rejected", velocity |-> FALSE,
              recentTransactions |-> recentTransactions]
        ELSE IF amount.v > amountThreshold
        THEN [verdict |-> "approved", velocity |-> FALSE,
              recentTransactions |-> recentTransactions]
        ELSE LET v == checkVelocity(recentTransactions, request.Pan, t)
             IN  [verdict |-> IF v.ret THEN "rejected" ELSE "approved",
                  velocity |-> TRUE,
                  recentTransactions |-> v.recentTransactions]

\* the requests analyzed: a plain pan and a pan of a high-risk BIN, with
\* amounts of 20, 600, 1200 and one that does not parse
PanPlain == <<"4", "1", "1", "1", "1", "1", "1">>
PanRisk == <<"4", "3", "1", "2", "7", "4", "1">>
FraudRequests ==
    {[Pan |-> p, Amount |-> a] :
        p \in {PanPlain, PanRisk},
        a \in {<<"2", "0">>, <<"6", "0", "0">>, <<"1", "2", "0", "0">>, <<"x">>}}

\* the clock moves to the next instant of FraudTimes
FraudTick ==
    /\ \E t \in FraudTimes : t > fa.clock
    /\ fa' = [fa EXCEPT
                !.clock = CHOOSE t \in FraudTimes :
                              /\ t > fa.clock
                              /\ \A u \in FraudTimes : u > fa.clock => t <= u,
                !.call = NoAnalysis]
    /\ UNCHANGED <<lk, ct, gt, dr, wf, now, healthVars, replyVars, routerVars, acct, serverVars>>

\* one Analyze call, from entry to return
DoAnalyze(request) ==
    /\ Len(fa.checked) < MaxAnalyses
    /\ LET r == AnalyzeCall(fa.recentTransactions, request, fa.clock)
       IN  fa' = [fa EXCEPT
                    !.recentTransactions = r.recentTransactions,
                    !.call = [Pan |-> request.Pan, Amount |-> request.Amount,
                              verdict |-> r.verdict, velocity |-> r.velocity,
                              before |-> fa.recentTransactions],
                    !.checked = IF r.velocity
                                THEN Append(@, [pan |-> request.Pan, t |-> fa.clock])
                                ELSE @]
    /\ UNCHANGED <<lk, ct, gt, dr, wf, now, healthVars, replyVars, routerVars, acct, serverVars>>

NextFraud ==
    \/ FraudTick
    \/ \E request \in FraudRequests : DoAnalyze(request)

SpecFraud == Init /\ [][NextFraud]_vars

(***************************************************************************)
(* One SimpleFraudAnalyzer shared by the CheckTransaction activities of a  *)
(* worker.  The analyzer has no lock: checkVelocity reads the pan's list   *)
(* from the map in one step and assigns the new list in a later one, and   *)
(* another activity may do either in between.                              *)
(***************************************************************************)
\* the requests that reach checkVelocity
VelocityRequests ==
    {r \in FraudRequests : AnalyzeCall(<<>>, r, 0).velocity}

\* CheckTransaction calls Analyze, which reaches checkVelocity: now is
\* taken, the pan's list is read, the new list and the result are computed
cv_Read(a, request) ==
    /\ ~fa.fatal
    /\ fa.act[a].pc = "idle"
    /\ Len(fa.checked) + Cardinality({b \in Activities : fa.act[b].pc = "write"})
           < MaxChecks
    /\ request \in VelocityRequests
    /\ LET v == checkVelocity(fa.recentTransactions, request.Pan, fa.clock)
       IN  fa' = [fa EXCEPT !.act[a] =
                     [pc |-> "write", Pan |-> request.Pan, now |-> fa.clock,
                      recent |-> v.recentTransactions[request.Pan],
                      ret |-> v.ret]]
    /\ UNCHANGED <<lk, ct, gt, dr, wf, now, healthVars, replyVars, routerVars, acct, serverVars>>

\* f.recentTransactions[pan] = recent; the count is returned
cv_Write(a) ==
    /\ ~fa.fatal
    /\ fa.act[a].pc = "write"
    /\ LET pan == fa.act[a].Pan
       IN  fa' = [fa EXCEPT
                    !.recentTransactions =
                        [k \in DOMAIN @ \cup {pan} |->
                            IF k = pan THEN fa.act[a].recent ELSE @[k]],
                    !.checked = Append(@, [pan |-> pan, t |-> fa.act[a].now]),
                    !.act[a] = IdleActivity]
    /\ UNCHANGED <<lk, ct, gt, dr, wf, now, healthVars, replyVars, routerVars, acct, serverVars>>

\* two activities are about to assign into the map: the runtime may find the
\* writes concurrent and stop the worker
cv_MapFault ==
    /\ ~fa.fatal
    /\ \E a, b \in Activities :
          a # b /\ fa.act[a].pc = "write" /\ fa.act[b].pc = "write"
    /\ fa' = [fa EXCEPT !.fatal = TRUE]
    /\ UNCHANGED <<lk, ct, gt, dr, wf, now, healthVars, replyVars, routerVars, acct, serverVars>>

NextFraudConc ==
    \/ FraudTick
    \/ \E a \in Activities, request \in FraudRequests : cv_Read(a, request)
    \/ \E a \in Activities : cv_Write(a)
    \/ cv_MapFault

SpecFraudConc == Init /\ [][NextFraudConc]_vars

(***************************************************************************)
(* The locks of the router: r.healthMutex and the mutex of each            *)
(* RegionHealth, both sync.RWMutex.  A call is the sequence of lock        *)
(* operations it makes; which way a test on the tracker goes is left open. *)
(* RLock waits while a writer has announced itself; Lock announces the     *)
(* writer, which then waits for the readers to leave.                      *)
(***************************************************************************)
Op(op, m) == <<[op |-> op, mu |-> m]>>

\* IsHealthy that keeps its read lock while it takes the write lock
IsHealthyOps_KeepsRead(region, halfOpen) ==
    Op("RLock", region)
        \o (IF halfOpen
            THEN Op("Lock", region) \o Op("Unlock", region)
            ELSE <<>>)
        \o Op("RUnlock", region)

\* IsHealthy on the tracker of region: the read lock, for an Open circuit
\* past its timeout the read lock given up, the write lock taken and given
\* up, the read lock taken again, and the deferred RUnlock
IsHealthyOps(region, halfOpen) ==
    Op("RLock", region)
        \o (IF halfOpen
            THEN Op("RUnlock", region) \o Op("Lock", region)
                     \o Op("Unlock", region) \o Op("RLock", region)
            ELSE <<>>)
        \o Op("RUnlock", region)

\* RecordSuccess, RecordFailure: the write lock
RecordOps(region) == Op("Lock", region) \o Op("Unlock", region)

\* GetHealth: the read lock
GetHealthOps(region) == Op("RLock", region) \o Op("RUnlock", region)

\* HandleMessage: IsHealthy of the primary under healthMutex.RLock; the same
\* for the failover region when it is consulted; RecordSuccess or
\* RecordFailure of the target under healthMutex.Lock when an RPC was placed
HandleMessageOps(primary, pHalfOpen, failover, fHalfOpen, rpc) ==
    Op("RLock", "healthMutex") \o IsHealthyOps(primary, pHalfOpen)
        \o Op("RUnlock", "healthMutex")
        \o (IF failover
            THEN Op("RLock", "healthMutex")
                     \o IsHealthyOps(FailoverMap[primary], fHalfOpen)
                     \o Op("RUnlock", "healthMutex")
            ELSE <<>>)
        \o (IF rpc
            THEN Op("Lock", "healthMutex")
                     \o RecordOps(IF failover THEN FailoverMap[primary] ELSE primary)
                     \o Op("Unlock", "healthMutex")
            ELSE <<>>)

\* the probe of checkAllRegionsHealth, after its RPC: under healthMutex.Lock
\* RecordSuccess or RecordFailure, IsHealthy and, for a healthy region,
\* GetHealth
ProbeOps(region, halfOpen, healthy) ==
    Op("Lock", "healthMutex") \o RecordOps(region)
        \o IsHealthyOps(region, halfOpen)
        \o (IF healthy THEN GetHealthOps(region) ELSE <<>>)
        \o Op("Unlock", "healthMutex")

\* the calls a task may make
Calls(t) ==
    IF t \in HandlerTasks
    THEN {HandleMessageOps(p, ph, f, fh, TRUE) :
              p \in Regions, ph \in BOOLEAN, f \in BOOLEAN, fh \in BOOLEAN}
    ELSE {ProbeOps(r, h, g) : r \in Regions, h \in BOOLEAN, g \in BOOLEAN}
AllCalls == UNION {Calls(t) : t \in LockTasks}

LockStep == UNCHANGED <<ct, gt, dr, wf, fa, now, healthVars, replyVars, routerVars, acct, serverVars>>

\* the next lock operation of task t is op
NextOp(t, op) == lk.todo[t] # <<>> /\ Head(lk.todo[t]).op = op

\* task t has made its next operation on mutex m, which becomes mutex
Done(t, m, mutex) ==
    lk' = [lk EXCEPT !.mu[m] = mutex, !.todo[t] = Tail(@)]

\* a connection task enters HandleMessage, a probe's RPC has returned
lk_Call(t, call) ==
    /\ lk.todo[t] = <<>>
    /\ call \in Calls(t)
    /\ lk' = [lk EXCEPT !.todo[t] = call]
    /\ LockStep

\* RLock returns: no writer has announced itself
lk_RLock(t) ==
    /\ NextOp(t, "RLock")
    /\ LET m == Head(lk.todo[t]).mu
       IN  /\ lk.mu[m].w = "none"
           /\ Done(t, m, [lk.mu[m] EXCEPT !.readers = @ \cup {t}])
    /\ LockStep

lk_RUnlock(t) ==
    /\ NextOp(t, "RUnlock")
    /\ LET m == Head(lk.todo[t]).mu
       IN  Done(t, m, [lk.mu[m] EXCEPT !.readers = @ \ {t}])
    /\ LockStep

\* Lock: the writer announces itself, new readers wait from now on
lk_LockAnnounce(t) ==
    /\ NextOp(t, "Lock")
    /\ LET m == Head(lk.todo[t]).mu
       IN  /\ lk.mu[m].w = "none"
           /\ lk' = [lk EXCEPT !.mu[m].w = t]
    /\ LockStep

\* Lock returns: the readers have left
lk_LockAcquire(t) ==
    /\ NextOp(t, "Lock")
    /\ LET m == Head(lk.todo[t]).mu
       IN  /\ lk.mu[m].w = t
           /\ lk.mu[m].readers = {}
           /\ Done(t, m, [lk.mu[m] EXCEPT !.held = TRUE])
    /\ LockStep

lk_Unlock(t) ==
    /\ NextOp(t, "Unlock")
    /\ LET m == Head(lk.todo[t]).mu
       IN  Done(t, m, [lk.mu[m] EXCEPT !.w = "none", !.held = FALSE])
    /\ LockStep

\* the lock operations of task t
lk_Step(t) ==
    \/ lk_RLock(t)
    \/ lk_RUnlock(t)
    \/ lk_LockAnnounce(t)
    \/ lk_LockAcquire(t)
    \/ lk_Unlock(t)

NextLocks ==
    \/ \E t \in LockTasks, call \in AllCalls : lk_Call(t, call)
    \/ \E t \in LockTasks : lk_RLock(t)
    \/ \E t \in LockTasks : lk_RUnlock(t)
    \/ \E t \in LockTasks : lk_LockAnnounce(t)
    \/ \E t \in LockTasks : lk_LockAcquire(t)
    \/ \E t \in LockTasks : lk_Unlock(t)

\* a goroutine that can run is run, and a goroutine waiting for a mutex that
\* is free again and again is not passed over for ever
SpecLocks ==
    Init /\ [][NextLocks]_vars /\ \A t \in LockTasks : SF_vars(lk_Step(t))

(***************************************************************************)
(* iso/server.go: the accesses of Start, Shutdown and the connection tasks *)
(* to Server.connections and Server.isShutdown.  The Server has no lock:   *)
(* an access begins and ends in two steps and nothing keeps another task   *)
(* from beginning one in between.  Accesses to one field of which one is a *)
(* write, made at once, are a data race: the Go runtime may stop the       *)
(* program ("fatal error: concurrent map writes"), the write may be lost,  *)
(* or the program goes on as if nothing had happened.                      *)
(***************************************************************************)
\* two accesses that conflict: the same field, at least one of them a write
Conflict(a, obj, kind) ==
    a.obj = obj /\ (a.kind = "write" \/ kind = "write")

\* task begins an access of kind to obj
Begin(task, obj, kind) ==
    [t \in Tasks |->
        IF t = task
        THEN [obj |-> obj, kind |-> kind,
              raced |-> \E u \in Tasks \ {task} : Conflict(ct.acc[u], obj, kind)]
        ELSE IF Conflict(ct.acc[t], obj, kind)
        THEN [ct.acc[t] EXCEPT !.raced = TRUE]
        ELSE ct.acc[t]]

\* task is inside an access of kind to obj
Inside(task, obj, kind) ==
    ct.acc[task].obj = obj /\ ct.acc[task].kind = kind

\* what a write may leave in the table: its value, or, when it raced, also
\* the table as it was
Written_Table(task, value) ==
    IF ct.acc[task].raced THEN {value, ct.connections} ELSE {value}

\* what a read of isShutdown may return: the flag, or, when it raced, either
FlagRead(task) ==
    IF ct.acc[task].raced THEN BOOLEAN ELSE {ct.isShutdown}

TableStep == UNCHANGED <<lk, gt, dr, wf, fa, now, healthVars, replyVars, routerVars, acct, serverVars>>

\* Start: `for !s.isShutdown`, the read begins
St_TestBegin ==
    /\ ~ct.fatal
    /\ ct.pc["Start"] = "test"
    /\ ct.acc["Start"] = NoAccess
    /\ ct' = [ct EXCEPT !.acc = Begin("Start", "isShutdown", "read")]
    /\ TableStep

\* Start: the read ends; the loop is left or Accept is called
St_TestEnd(flag) ==
    /\ ~ct.fatal
    /\ ct.pc["Start"] = "test"
    /\ Inside("Start", "isShutdown", "read")
    /\ flag \in FlagRead("Start")
    /\ ct' = [ct EXCEPT !.acc["Start"] = NoAccess,
                        !.pc["Start"] = IF flag THEN "returned" ELSE "accept"]
    /\ TableStep

\* Start: Accept returns a connection
St_Accept(c) ==
    /\ ~ct.fatal
    /\ ct.pc["Start"] = "accept"
    /\ ct.listener = "open"
    /\ ct.pc[c] = "none"
    /\ ct' = [ct EXCEPT !.pc["Start"] = "insert", !.cur["Start"] = c]
    /\ TableStep

\* Start: Accept fails on the closed listener; `if s.isShutdown`, the read
\* begins
St_AcceptError ==
    /\ ~ct.fatal
    /\ ct.pc["Start"] = "accept"
    /\ ct.listener = "closed"
    /\ ct' = [ct EXCEPT !.pc["Start"] = "errtest",
                        !.acc = Begin("Start", "isShutdown", "read")]
    /\ TableStep

\* Start: the read ends; return nil, or continue
St_ErrTestEnd(flag) ==
    /\ ~ct.fatal
    /\ ct.pc["Start"] = "errtest"
    /\ flag \in FlagRead("Start")
    /\ ct' = [ct EXCEPT !.acc["Start"] = NoAccess,
                        !.pc["Start"] = IF flag THEN "returned" ELSE "test"]
    /\ TableStep

\* Start: s.connections[clientAddr] = conn, the write begins
St_InsertBegin ==
    /\ ~ct.fatal
    /\ ct.pc["Start"] = "insert"
    /\ ct.acc["Start"] = NoAccess
    /\ ct' = [ct EXCEPT !.acc = Begin("Start", "connections", "write")]
    /\ TableStep

\* Start: the write ends; go s.handleConnection(conn)
St_InsertEnd(table) ==
    /\ ~ct.fatal
    /\ ct.pc["Start"] = "insert"
    /\ Inside("Start", "connections", "write")
    /\ table \in Written_Table("Start", ct.connections \cup {ct.cur["Start"]})
    /\ ct' = [ct EXCEPT !.connections = table,
                        !.acc["Start"] = NoAccess,
                        !.pc["Start"] = "test",
                        !.pc[ct.cur["Start"]] = "running",
                        !.cur["Start"] = "none"]
    /\ TableStep

\* handleConnection returns (end of stream, a read error, a failed message,
\* the connection closed by Shutdown); the deferred function closes the
\* connection and begins delete(s.connections, clientAddr)
hc_DeleteBegin(c) ==
    /\ ~ct.fatal
    /\ ct.pc[c] = "running"
    /\ ct' = [ct EXCEPT !.pc[c] = "delete",
                        !.acc = Begin(c, "connections", "write")]
    /\ TableStep

\* the delete ends, the task is over
hc_DeleteEnd(c, table) ==
    /\ ~ct.fatal
    /\ ct.pc[c] = "delete"
    /\ table \in Written_Table(c, ct.connections \ {c})
    /\ ct' = [ct EXCEPT !.connections = table,
                        !.acc[c] = NoAccess,
                        !.pc[c] = "done"]
    /\ TableStep

\* Shutdown: s.isShutdown = true, the write begins
Sd_FlagBegin ==
    /\ ~ct.fatal
    /\ ct.pc["Shutdown"] = "none"
    /\ ct' = [ct EXCEPT !.pc["Shutdown"] = "flag",
                        !.acc = Begin("Shutdown", "isShutdown", "write")]
    /\ TableStep

\* Shutdown: the write ends; s.listener.Close()
Sd_FlagEnd ==
    /\ ~ct.fatal
    /\ ct.pc["Shutdown"] = "flag"
    /\ ct' = [ct EXCEPT !.isShutdown = TRUE,
                        !.listener = "closed",
                        !.acc["Shutdown"] = NoAccess,
                        !.pc["Shutdown"] = "range"]
    /\ TableStep

\* Shutdown: `for addr, conn := range s.connections`, the read of the next
\* entry begins
Sd_RangeBegin ==
    /\ ~ct.fatal
    /\ ct.pc["Shutdown"] = "range"
    /\ ct.acc["Shutdown"] = NoAccess
    /\ ct' = [ct EXCEPT !.acc = Begin("Shutdown", "connections", "read")]
    /\ TableStep

\* Shutdown: the loop has no entry left and Shutdown returns
Sd_RangeDone ==
    /\ ~ct.fatal
    /\ ct.pc["Shutdown"] = "range"
    /\ Inside("Shutdown", "connections", "read")
    /\ ct.connections = {}
    /\ ct' = [ct EXCEPT !.acc["Shutdown"] = NoAccess,
                        !.pc["Shutdown"] = "done"]
    /\ TableStep

\* Shutdown: the loop yields an entry; conn.Close(); the delete begins
Sd_DeleteBegin(c) ==
    /\ ~ct.fatal
    /\ ct.pc["Shutdown"] = "range"
    /\ Inside("Shutdown", "connections", "read")
    /\ c \in ct.connections
    /\ ct' = [ct EXCEPT !.pc["Shutdown"] = "delete",
                        !.cur["Shutdown"] = c,
                        !.acc = Begin("Shutdown", "connections", "write")]
    /\ TableStep

\* Shutdown: the delete ends, on to the next entry
Sd_DeleteEnd(table) ==
    /\ ~ct.fatal
    /\ ct.pc["Shutdown"] = "delete"
    /\ table \in Written_Table("Shutdown", ct.connections \ {ct.cur["Shutdown"]})
    /\ ct' = [ct EXCEPT !.connections = table,
                        !.acc["Shutdown"] = NoAccess,
                        !.cur["Shutdown"] = "none",
                        !.pc["Shutdown"] = "range"]
    /\ TableStep

\* the runtime finds two tasks inside the map, one of them writing, and stops
\* the program
ConcurrentMapFault ==
    /\ ~ct.fatal
    /\ \E t \in Tasks : ct.acc[t].obj = "connections" /\ ct.acc[t].raced
    /\ ct' = [ct EXCEPT !.fatal = TRUE]
    /\ TableStep

NextTable ==
    \/ St_TestBegin
    \/ \E flag \in BOOLEAN : St_TestEnd(flag)
    \/ \E c \in Sockets : St_Accept(c)
    \/ St_AcceptError
    \/ \E flag \in BOOLEAN : St_ErrTestEnd(flag)
    \/ St_InsertBegin
    \/ \E table \in SUBSET Sockets : St_InsertEnd(table)
    \/ \E c \in Sockets : hc_DeleteBegin(c)
    \/ \E c \in Sockets, table \in SUBSET Sockets : hc_DeleteEnd(c, table)
    \/ Sd_FlagBegin
    \/ Sd_FlagEnd
    \/ Sd_RangeBegin
    \/ Sd_RangeDone
    \/ \E c \in Sockets : Sd_DeleteBegin(c)
    \/ \E table \in SUBSET Sockets : Sd_DeleteEnd(table)
    \/ ConcurrentMapFault

SpecTable == Init /\ [][NextTable]_vars

(***************************************************************************)
(* The circuit breaker: claims C1 - C5.                                    *)
(***************************************************************************)
\* the transitions of the circuit breaker's table
TransitionTable ==
    {<<CircuitClosed, CircuitOpen>>, <<CircuitOpen, CircuitHalfOpen>>,
     <<CircuitHalfOpen, CircuitClosed>>, <<CircuitHalfOpen, CircuitOpen>>}

\* C1: a RecordFailure that finds the tracker HalfOpen leaves it Open, with
\* LastStateChange set to the time of the call, whatever the failure count.
C1_HalfOpenFailureReopens ==
    (ev.op = "RecordFailure" /\ ev.pre = CircuitHalfOpen)
        => (rh.State = CircuitOpen /\ rh.LastStateChange = now)

\* C2: from Closed with no failure counted, after k RecordFailure calls in a
\* row the tracker is Open if k >= FailureThreshold and Closed if k < it; and
\* a call that leaves the tracker Open, having found it otherwise, is a
\* RecordFailure at which ConsecutiveFailures >= FailureThreshold.
C2_ThresholdTrips ==
    /\ streak >= 0 =>
          rh.State = (IF streak >= FailureThreshold THEN CircuitOpen
                                                     ELSE CircuitClosed)
    /\ (rh.State = CircuitOpen /\ ev.pre # CircuitOpen) =>
          (ev.op = "RecordFailure" /\ rh.ConsecutiveFailures >= FailureThreshold)

\* five failures in a row from Closed have just opened the circuit
C2_Witness ==
    /\ streak = FailureThreshold
    /\ ev.op = "RecordFailure" /\ ev.pre = CircuitClosed
    /\ rh.State = CircuitOpen

\* C3: a RecordSuccess that finds the tracker HalfOpen, or Closed, leaves it
\* Closed with ConsecutiveFailures = 0 (so does every further RecordSuccess,
\* each of which finds it Closed again).
C3_SuccessCloses ==
    (ev.op = "RecordSuccess" /\ ev.pre \in {CircuitHalfOpen, CircuitClosed})
        => (rh.State = CircuitClosed /\ rh.ConsecutiveFailures = 0)

\* a RecordSuccess has closed a HalfOpen circuit that had counted failures
C3_Witness ==
    /\ ev.op = "RecordSuccess" /\ ev.pre = CircuitHalfOpen
    /\ rh.State = CircuitClosed
    /\ Len(rh.RecentErrors) >= FailureThreshold

\* C4: the tracker goes from Open to HalfOpen only in an IsHealthy call made
\* more than ResetTimeout after LastStateChange; an IsHealthy call made
\* earlier on an Open tracker returns false and leaves it Open; IsHealthy
\* returns true exactly when it leaves the tracker Closed or HalfOpen.
C4_HalfOpenOnlyAfterTimeout ==
    /\ (ev.pre = CircuitOpen /\ rh.State = CircuitHalfOpen) =>
          (ev.op = "IsHealthy" /\ ev.age > ResetTimeout)
    /\ (ev.op = "IsHealthy" /\ ev.pre = CircuitOpen /\ ev.age <= ResetTimeout) =>
          (rh.State = CircuitOpen /\ ev.ret = FALSE)
    /\ ev.op = "IsHealthy" =>
          (ev.ret = (rh.State \in {CircuitClosed, CircuitHalfOpen}))

\* an IsHealthy call has taken an Open tracker to HalfOpen and returned true
C4_Witness ==
    /\ ev.op = "IsHealthy" /\ ev.pre = CircuitOpen /\ ev.ret = TRUE
    /\ rh.State = CircuitHalfOpen /\ rh.LastStateChange = now

\* C5: under every interleaving of concurrent calls on one RegionHealth,
\* every change of State is a transition of the table; the write of
\* IsHealthy never takes a Closed tracker to HalfOpen.
C5_OnlyTableTransitions ==
    [][rh'.State # rh.State => <<rh.State, rh'.State>> \in TransitionTable]_vars

(***************************************************************************)
(* The dispatcher: claims C6 - C9.                                         *)
(***************************************************************************)
\* the HandleMessage call of connection c has chosen its target
Selected(c) ==
    \/ conn[c].pc \in {"dispatch", "rpc"}
    \/ conn[c].pc = "reply" /\ conn[c].outcome # "none"

\* C6: the target is the primary when IsHealthy returned true for it; when it
\* returned false, the target is failover_map[primary] if that entry exists
\* and IsHealthy returned true for that region, and the primary otherwise;
\* the target is never further than one hop from the primary; the request's
\* region field is the target when the RPC is placed.
C6_TargetSelection ==
    \A c \in Conns : Selected(c) =>
        LET cr == conn[c]
            hasEntry == cr.primary \in DOMAIN FailoverMap
        IN  /\ cr.pH => (cr.target = cr.primary /\ ~cr.fChecked)
            /\ (~cr.pH /\ hasEntry) =>
                  /\ cr.fChecked
                  /\ cr.target = IF cr.fH THEN FailoverMap[cr.primary]
                                          ELSE cr.primary
            /\ (~cr.pH /\ ~hasEntry) => (cr.target = cr.primary /\ ~cr.fChecked)
            /\ cr.target \in {cr.primary}
                    \cup (IF hasEntry THEN {FailoverMap[cr.primary]} ELSE {})
            /\ cr.pc = "rpc" => cr.region = cr.target

\* an RPC is placed to the failover region of an unhealthy primary
C6_Witness ==
    \E c \in Conns :
        /\ conn[c].pc = "rpc" /\ ~conn[c].pH /\ conn[c].fH
        /\ conn[c].target = FailoverMap[conn[c].primary]
        /\ conn[c].target # conn[c].primary
        /\ conn[c].region = conn[c].target

\* C7: once FailureThreshold failures in a row have been recorded for a
\* region P that was Closed, a request with primary P that arrives no later
\* than ResetTimeout after the last of them finds P not healthy and is
\* dispatched to failover_map[P] when IsHealthy returns true for that region;
\* the audit write spawned for it, and the row that write commits, carry the
\* failover region.
C7_FailoverAfterTrip ==
    /\ [](/\ \A c \in Conns : (Selected(c) /\ conn[c].tripped) =>
                /\ ~conn[c].pH
                /\ conn[c].fH =>
                      /\ conn[c].target = FailoverMap[conn[c].primary]
                      /\ conn[c].pc = "rpc" => conn[c].region = conn[c].target
          /\ \A j \in jobs : (j.tripped /\ j.fH) =>
                (j.region = FailoverMap[j.primary] /\ j.region # j.primary))
    /\ [][\A j \in jobs : (j \notin jobs' /\ store' # store) =>
             store'[j.auth.Stan].region = j.region]_vars

\* the audit write of a request that failed over after a trip is in flight
C7_Witness ==
    \E j \in jobs :
        /\ j.tripped /\ j.fH
        /\ j.primary = "us_east" /\ j.region = "eu_west"
        /\ regionHealth["us_east"].State = CircuitOpen

C9_HealthAccounting ==
    acct.by # "none" =>
        /\ acct.calls =
              <<[region |-> acct.region,
                 op |-> IF acct.outcome = "ok" THEN "RecordSuccess"
                                               ELSE "RecordFailure"]>>
        /\ acct.changed \subseteq {acct.region}
        /\ acct.outcome = "ok" =>
              regionHealth[acct.region].ConsecutiveFailures = 0
        /\ (acct.outcome # "ok" /\ regionHealth[acct.region].State = CircuitClosed)
              => regionHealth[acct.region].ConsecutiveFailures >= 1

\* an RPC of HandleMessage ran out of time and a failure has been counted
C9_Witness ==
    /\ acct.by \in Conns /\ acct.outcome = "deadline"
    /\ acct.calls = <<[region |-> acct.region, op |-> "RecordFailure"]>>
    /\ regionHealth[acct.region].ConsecutiveFailures >= 1

(***************************************************************************)
(* The reply's mti: claim C10.                                             *)
(***************************************************************************)
\* C10: for a request whose mti "abcd" has '0' as its third character, every
\* reply (the translated processor reply, the timeout decline, the workflow's
\* "59" and "96" declines) has mti "ab1d".
C10_ReplyMti ==
    (reply.by # "none" /\ rq[0][3] = "0") =>
        reply.mti = <<rq[0][1], rq[0][2], "1", rq[0][4]>>

\* C11: every reply frame HandleMessage produces, from a processor's
\* response or as a timeout decline, carries in fields 2, 4, 7 and 11 the
\* values of the inbound frame, whatever the processor's response carries
C11_EchoedFields ==
    reply.by \in {"processor", "timeout", "foreign"} =>
        \A id \in {2, 4, 7, 11} :
            /\ id \in DOMAIN reply.frame
            /\ reply.frame[id] = rq[id]

\* a processor's response with another pan and another stan was translated
C11_Witness ==
    /\ reply.by = "foreign"
    /\ reply.response.Stan # rq[11]
    /\ reply.response.Pan # rq[2]
    /\ reply.frame[11] = rq[11]
    /\ reply.frame[2] = rq[2]

\* the reply frames written on the connections so far
Written ==
    UNION {{conn[c].out[i] : i \in 1..Len(conn[c].out)} : c \in Conns}

\* C12: every call whose RPC returned a reply gets its audit record: once the
\* reply is written and no write for its stan is pending, the store holds a
\* row with that stan, approved exactly when the response code is "00"
C12_ReplyAudited ==
    \A f \in {g \in Written : g[39] # "91"} :
        \/ \E j \in jobs : j.auth.Stan = f[11]
        \/ /\ f[11] \in DOMAIN store
           /\ store[f[11]].approved = (f[39] = "00")

\* C13: a request answered with the timeout decline "91" gets an audit record
\* with approved = false
C13_TimeoutAudited ==
    \A f \in {g \in Written : g[39] = "91"} :
        \/ \E j \in jobs : j.auth.Stan = f[11] /\ ~j.approved
        \/ /\ f[11] \in DOMAIN store
           /\ ~store[f[11]].approved

\* C14: a row is in the store only when the reply frame of its request has
\* been written on the connection
C14_AuditAfterReply ==
    \A stan \in DOMAIN store : \E f \in Written : f[11] = stan

\* C15: on one socket the k-th reply written answers the k-th frame read, and
\* frame k+1 is not read before the reply to frame k has been written
C15_Fifo ==
    \A c \in Sockets :
        LET d == sc[c]
        IN  /\ Len(d.out) <= Len(d.reads)
            /\ Len(d.reads) <= Len(d.out) + 1
            /\ d.pc \in {"handling", "write"} => Len(d.reads) = Len(d.out) + 1
            /\ d.pc = "read" => Len(d.reads) = Len(d.out)
            /\ \A k \in 1..Len(d.out) :
                  /\ Unpack(d.reads[k]).ok
                  /\ d.out[k] \in {r.frame : r \in
                        {x \in HandleMessageResults(Unpack(d.reads[k]).message) :
                            x.kind = "frame"}}
                  /\ d.out[k][11] = Unpack(d.reads[k]).message[11]

\* two frames with different stans were read and answered on one socket
C15_Witness ==
    \E c \in Sockets :
        /\ Len(sc[c].out) = 2
        /\ sc[c].out[1][11] # sc[c].out[2][11]
        /\ sc[c].out[2][11] = Unpack(sc[c].reads[2]).message[11]

\* the frames read on a socket that unpacked
Decoded(d) == {k \in 1..Len(d.reads) : Unpack(d.reads[k]).ok}

\* C16: a frame that cannot be unpacked is dropped and the connection stays
\* open: handleConnection does not return because of it
C16_ParseFaultKeepsOpen ==
    \A c \in Sockets :
        (\E k \in 1..Len(sc[c].reads) : ~Unpack(sc[c].reads[k]).ok) =>
            sc[c].closedBy # "unpack"

\* C17: every frame handed to the handler gets its reply written on the same
\* socket, whatever the handler returned (sockets closed by Shutdown under a
\* message in hand apart)
C17_AlwaysReplies ==
    \A c \in Sockets :
        (sc[c].pc \notin {"handling", "write"} /\ sc[c].closedBy # "write") =>
            Len(sc[c].out) = Cardinality(Decoded(sc[c]))

\* C18: after Shutdown nothing is accepted, and no socket is closed while a
\* message read on it is with the handler or its reply is still to be written
C18_DrainOnShutdown ==
    /\ srv.isShutdown => srv.listener = "closed"
    /\ \A c \in Sockets :
          sc[c].sock = "closed" => sc[c].pc \notin {"handling", "write"}

\* C19: a run whose screen activity returned a reject returns the "59"
\* response with a reply message type and the request's pan, amount,
\* transmission time and stan; the authorization activity is never attempted
\* and no RPC is placed; LogTransaction is scheduled with that response
C19_ScreenReject ==
    wf.screen = "rejected" =>
        /\ wf.pc = "returned"
        /\ wf.authAttempts = 0
        /\ wf.rpcs = 0
        /\ wf.response.ResponseCode = "59"
        /\ Len(wf.response.Mti) = 4
        /\ wf.response.Mti[3] = "1"
        /\ Len(wf.request.Mti) = 4 =>
              \A i \in {1, 2, 4} : wf.response.Mti[i] = wf.request.Mti[i]
        /\ wf.response.Pan = wf.request.Pan
        /\ wf.response.Amount = wf.request.Amount
        /\ wf.response.TransmissionTime = wf.request.TransmissionTime
        /\ wf.response.Stan = wf.request.Stan
        /\ Len(wf.logs) = 1
        /\ wf.logs[1].response = wf.response

\* a 0200 request was rejected by the screen at its second attempt
C19_Witness ==
    /\ wf.pc = "returned"
    /\ wf.screen = "rejected"
    /\ wf.screenAttempts = 2
    /\ wf.request.Mti = <<"0", "2", "0", "0">>
    /\ wf.response.Mti = <<"0", "2", "1", "0">>

\* C20: when the screen activity has failed at every attempt the run sets
\* the attribute FraudCheckStatus to "ERROR" and goes on to the authorization
\* activity; the response code it returns is the processor's, or "96" when
\* the authorization has failed, as if the screen had approved
C20_ScreenFailOpen ==
    wf.screen = "error" =>
        /\ wf.screenAttempts = MaxRetries
        /\ wf.FraudCheckStatus = "ERROR"
        /\ wf.pc \in {"auth", "returned"}
        /\ wf.pc = "returned" =>
              /\ wf.authAttempts >= 1
              /\ Len(wf.logs) = 1
              /\ \/ /\ wf.response.ResponseCode = "96"
                    /\ wf.authAttempts = MaxRetries
                 \/ /\ wf.region \in Clients
                    /\ wf.response =
                          ProcessAuth(wf.region,
                              [wf.request EXCEPT !.Region = wf.region])

\* the screen failed three times and the processor then approved
C20_Witness ==
    /\ wf.screen = "error"
    /\ wf.pc = "returned"
    /\ wf.rpcs >= 1
    /\ wf.response.ResponseCode = "00"

\* C21: the authorization activity is attempted at most 3 times in a run; a
\* run in which every attempt has failed returns the "96" response with a
\* reply message type and the request's fields, and LogTransaction is
\* scheduled with it
C21_DispatchRetries ==
    /\ wf.authAttempts <= 3
    /\ (wf.pc = "returned" /\ wf.authAttempts >= 1 /\ wf.auth = NoResponse) =>
          /\ wf.authAttempts = 3
          /\ wf.response.ResponseCode = "96"
          /\ Len(wf.response.Mti) = 4
          /\ wf.response.Mti[3] = "1"
          /\ Len(wf.request.Mti) = 4 =>
                \A i \in {1, 2, 4} : wf.response.Mti[i] = wf.request.Mti[i]
          /\ wf.response.Pan = wf.request.Pan
          /\ wf.response.Amount = wf.request.Amount
          /\ wf.response.TransmissionTime = wf.request.TransmissionTime
          /\ wf.response.Stan = wf.request.Stan
          /\ Len(wf.logs) = 1
          /\ wf.logs[1].response = wf.response

\* three RPCs were placed and failed, and the run returned "96"
C21_Witness ==
    /\ wf.pc = "returned"
    /\ wf.rpcs = 3
    /\ wf.auth = NoResponse
    /\ wf.response.ResponseCode = "96"
    /\ Len(wf.logs) = 1

\* C22: a run of Execute never ends in a fault, whatever the request: it
\* ends by returning a response that carries a response code
C22_NeverThrows ==
    /\ wf.pc # "panicked"
    /\ wf.pc = "returned" => wf.response.ResponseCode # ""

\* C23: a run whose authorization activity succeeded at attempt k, after
\* k-1 failed attempts, returns the processor's response with its response
\* code unchanged, and LogTransaction is scheduled exactly once
C23_RetryThenSuccess ==
    (wf.pc = "returned" /\ wf.auth # NoResponse) =>
        /\ wf.authAttempts \in 1..3
        /\ wf.rpcs = wf.authAttempts
        /\ wf.region \in Clients
        /\ wf.response.ResponseCode =
              ProcessAuth(wf.region,
                          [wf.request EXCEPT !.Region = wf.region]).ResponseCode
        /\ wf.response.Stan = wf.request.Stan
        /\ Len(wf.logs) = 1
        /\ wf.logs[1].response = wf.response

\* the first attempt failed, the second succeeded and the processor approved
C23_Witness ==
    /\ wf.pc = "returned"
    /\ wf.authAttempts = 2
    /\ wf.auth # NoResponse
    /\ wf.response.ResponseCode = "00"
    /\ Len(wf.logs) = 1

\* C24: a run whose authorization RPC ran out of time at every attempt the
\* retry policy allows returns a response with response code "91"
C24_TimeoutCode ==
    (wf.pc = "returned" /\ wf.auth = NoResponse
        /\ wf.authAttempts = MaximumAttempts
        /\ wf.deadlines = wf.authAttempts) =>
        wf.response.ResponseCode = "91"

\* C25: with no client for the region of the run the authorization activity
\* is attempted exactly once, and the run returns the "96" response
C25_NoClientNoRetry ==
    (wf.pc \in {"auth", "returned"} /\ wf.region \notin Clients) =>
        /\ wf.authAttempts <= 1
        /\ (wf.pc = "returned" /\ wf.screen # "rejected") =>
              /\ wf.authAttempts = 1
              /\ wf.response.ResponseCode = "96"

\* C26: on every path of a run LogTransaction is invoked exactly once and
\* not retried: it is scheduled once, attempted at most once, and once it is
\* over it has been attempted once; the response the run returned is the
\* one LogTransaction was given, whatever became of the activity
C26_AuditOnce ==
    wf.pc = "returned" =>
        /\ Len(wf.logs) = 1
        /\ wf.logs[1].response = wf.response
        /\ wf.logAttempts <= 1
        /\ wf.log \in {"done", "abandoned"} => wf.logAttempts = 1

\* C27: a frame whose transaction the screen rejects is answered on its
\* connection with field 39 = "59", and no RPC is placed for it
C27_ScreenBeforeDispatch ==
    /\ \A c \in Conns :
          conn[c].pc = "rpc" =>
              Analyze(isoToAuthRequest(conn[c].message), FALSE) # "rejected"
    /\ \A f \in Written :
          Analyze([Pan |-> f[2], Amount |-> f[4]], FALSE) = "rejected" =>
              f[39] = "59"

\* the position of the first "-" of a key that holds one
Dash(key) == CHOOSE i \in DOMAIN key : key[i] = "-" /\ \A j \in 1..(i - 1) : key[j] # "-"

\* the digits of s read as a number
RECURSIVE Number(_)
Number(s) == IF s = <<>> THEN 0 ELSE 10 * Number(SubSeq(s, 1, Len(s) - 1))
                + (CHOOSE d \in 0..9 : <<"0", "1", "2", "3", "4", "5", "6", "7", "8", "9">>[d + 1] = s[Len(s)])

IsNumber(s) == s # <<>> /\ \A i \in DOMAIN s : s[i] \in Digit

\* a key matches bin: a prefix key when bin begins with it; a range key lo-hi
\* when the first len(lo) characters of bin, as a number, are within lo..hi
KeyMatches(key, bin) ==
    IF \A i \in DOMAIN key : key[i] # "-"
    THEN Len(key) <= Len(bin) /\ SubSeq(bin, 1, Len(key)) = key
    ELSE LET lo == SubSeq(key, 1, Dash(key) - 1)
             hi == SubSeq(key, Dash(key) + 1, Len(key))
         IN  /\ IsNumber(lo) /\ IsNumber(hi)
             /\ Len(lo) <= Len(bin)
             /\ IsNumber(SubSeq(bin, 1, Len(lo)))
             /\ Number(SubSeq(bin, 1, Len(lo))) >= Number(lo)
             /\ Number(SubSeq(bin, 1, Len(lo))) <= Number(hi)

\* C28: determineRegion always returns a region: the default region for a
\* pan of fewer than six characters; else the region of an entry that
\* matches the first six characters, and the default region when none does
C28_DetermineRegion ==
    dr.result # "none" =>
        /\ dr.result # "panic"
        /\ Len(dr.pan) < 6 => dr.result = dr.default
        /\ Len(dr.pan) >= 6 =>
              LET bin == SubSeq(dr.pan, 1, 6)
                  hits == {k \in DOMAIN dr.table : KeyMatches(k, bin)}
              IN  IF hits = {} THEN dr.result = dr.default
                  ELSE \E k \in hits : dr.result = dr.table[k]

\* C29: under the single entry 400000-499999 the pans that begin 400000 or
\* 499999 get the entry's region, those that begin 399999 or 500000 the
\* default region
C29_RangeInclusive ==
    (dr.table = RangeTable /\ dr.result # "none" /\ Len(dr.pan) >= 6) =>
        LET bin == SubSeq(dr.pan, 1, 6)
        IN  /\ bin \in {Str6("4", "0", "0", "0", "0", "0"),
                        Str6("4", "9", "9", "9", "9", "9")} =>
                  dr.result = "eu_west"
            /\ bin \in {Str6("3", "9", "9", "9", "9", "9"),
                        Str6("5", "0", "0", "0", "0", "0")} =>
                  dr.result = "us_east"

\* a pan that begins 499999 was routed by the range entry
C29_Witness ==
    /\ dr.table = RangeTable
    /\ dr.default = "us_east"
    /\ Len(dr.pan) >= 6
    /\ SubSeq(dr.pan, 1, 6) = Str6("4", "9", "9", "9", "9", "9")
    /\ dr.result = "eu_west"

\* C30: when the storage returns no record and no error for the stan, the
\* GetTransaction endpoint returns no error
C30_AbsenceIsNoError ==
    (gt.called /\ ~gt.found.err /\ gt.found.record = NoRecord) =>
        gt.result.err = ""

\* C31: whenever GetHealth reads the tracker, every timestamp of RecentErrors
\* lies within ErrorWindow of the current time
C31_ErrorsWithinWindow ==
    ev.op = "GetHealth" =>
        \A i \in DOMAIN rh.RecentErrors : now - rh.RecentErrors[i] <= ErrorWindow

(***************************************************************************)
(* The fraud analyzer: claims C32, C33.                                    *)
(***************************************************************************)
\* the transactions of pan that reached the velocity check less than
\* VelocityWindow before the analyzer's clock, the last call included
InWindow(pan) ==
    {i \in DOMAIN fa.checked :
        fa.checked[i].pan = pan /\ fa.clock - fa.checked[i].t < VelocityWindow}

\* C32: a transaction that reaches the velocity check is rejected iff, itself
\* counted, more than velocityThreshold velocity-checked transactions of its
\* pan, rejected ones included, lie within the last five minutes
C32_VelocityRule ==
    fa.call.velocity =>
        (fa.call.verdict = "rejected"
            <=> Cardinality(InWindow(fa.call.Pan)) > velocityThreshold)

\* a fifth transaction of one pan inside the window is rejected, the rejected
\* fourth being counted
C32_Witness ==
    /\ fa.call.velocity
    /\ fa.call.verdict = "rejected"
    /\ Cardinality(InWindow(fa.call.Pan)) = velocityThreshold + 2

C34_AuditContextOutlivesCall ==
    [][\A j \in jobs :
          j \notin jobs' =>
              /\ j.auth.Stan \in DOMAIN store'
              /\ store'[j.auth.Stan] = AuditRow(j)]_vars

\* C35: a HandleMessage call whose target region has no client returns an
\* error; it places no RPC, leaves every tracker as it was, and spawns no
\* audit write
C35_NoClientNoEffect ==
    /\ [](\A c \in Conns :
            (conn[c].pc \in {"reply", "closed"} /\ conn[c].target # ""
                /\ conn[c].target \notin Clients) =>
                /\ conn[c].result.kind = "error"
                /\ conn[c].outcome = "none"
                /\ \A j \in jobs : j.auth.Stan # conn[c].message[11]
                /\ conn[c].message[11] \notin DOMAIN store)
    /\ [][\A c \in Conns :
            (conn[c].pc = "dispatch" /\ conn[c].target \notin Clients
                /\ conn'[c] # conn[c]) =>
                /\ conn'[c].pc = "reply"
                /\ conn'[c].result.kind = "error"
                /\ regionHealth' = regionHealth
                /\ jobs' = jobs
                /\ store' = store]_vars

\* a call routed to ap_south, a region without client, has returned its error
C35_Witness ==
    \E c \in Conns :
        /\ conn[c].pc = "reply"
        /\ conn[c].target = "ap_south"
        /\ conn[c].target \notin Clients
        /\ conn[c].result.kind = "error"

(***************************************************************************)
(* The server's fields: claim C36.                                         *)
(***************************************************************************)
\* C36: no two tasks are at once inside accesses to Server.connections, or
\* to Server.isShutdown, of which one is a write
C36_NoConcurrentAccess ==
    \A t, u \in Tasks :
        (t # u /\ ct.acc[t].obj # "none" /\ ct.acc[t].obj = ct.acc[u].obj) =>
            (ct.acc[t].kind = "read" /\ ct.acc[u].kind = "read")

(***************************************************************************)
(* The shared fraud analyzer: claim C37.                                   *)
(***************************************************************************)
\* the entries of a list, or of the history, less than an hour old
Kept(pan) ==
    IF pan \in DOMAIN fa.recentTransactions
    THEN Len(Younger(fa.recentTransactions[pan], fa.clock, HistoryWindow))
    ELSE 0
Recorded(pan) ==
    Cardinality({i \in DOMAIN fa.checked :
                    fa.checked[i].pan = pan
                        /\ fa.clock - fa.checked[i].t < HistoryWindow})

\* C37: concurrent Analyze calls lose no recorded timestamp: the list of a
\* pan holds a timestamp for every velocity check of the pan that has ended
\* within the last hour
C37_NoLostTimestamp ==
    \A pan \in {PanPlain, PanRisk} : Kept(pan) >= Recorded(pan)

(***************************************************************************)
(* The router's locks: claim C38.                                          *)
(***************************************************************************)
\* C38: no interleaving of HandleMessage calls and probes deadlocks on
\* healthMutex and the trackers' mutexes: every task that requests a lock
\* acquires it, so every call makes all its lock operations and ends
C38_LocksAcquired ==
    \A t \in LockTasks : (lk.todo[t] # <<>>) ~> (lk.todo[t] = <<>>)

\* a handler inside IsHealthy, holding healthMutex for reading, has announced
\* itself as writer of a tracker's mutex and waits for the other handler, a
\* reader of it, while the probe waits to write-lock healthMutex
C38_Witness ==
    \E t, u \in HandlerTasks, r \in Regions :
        /\ t # u
        /\ lk.mu[r].w = t /\ ~lk.mu[r].held
        /\ u \in lk.mu[r].readers
        /\ {t, u} \subseteq lk.mu["healthMutex"].readers
        /\ lk.mu["healthMutex"].w = "probe" /\ ~lk.mu["healthMutex"].held

(***************************************************************************)
(* The circuit breaker: claims C39, C40.                                   *)
(***************************************************************************)
\* C39: a Closed tracker has counted fewer than FailureThreshold failures in
\* a row, and the count is never negative
C39_ClosedBelowThreshold ==
    /\ rh.State = CircuitClosed => rh.ConsecutiveFailures < FailureThreshold
    /\ rh.ConsecutiveFailures >= 0

\* a RecordFailure has left the tracker Closed one failure short of the
\* threshold
C39_Witness ==
    /\ ev.op = "RecordFailure"
    /\ rh.State = CircuitClosed
    /\ rh.ConsecutiveFailures = FailureThreshold - 1

\* C40: a RecordSuccess on an Open tracker sets the count of failures to 0
\* and leaves the tracker Open with LastStateChange as it was; an Open
\* tracker is never Closed in one step, only HalfOpen
C40_OpenStaysOpenOnSuccess ==
    /\ []((ev.op = "RecordSuccess" /\ ev.pre = CircuitOpen) =>
              (rh.State = CircuitOpen /\ rh.ConsecutiveFailures = 0))
    /\ [][rh.State = CircuitOpen =>
              /\ rh'.State \in {CircuitOpen, CircuitHalfOpen}
              /\ rh'.State = CircuitOpen =>
                     rh'.LastStateChange = rh.LastStateChange]_vars

\* a RecordSuccess was made on an Open tracker after the clock had moved on
\* from the time the circuit opened
C40_Witness ==
    /\ ev.op = "RecordSuccess"
    /\ ev.pre = CircuitOpen
    /\ rh.State = CircuitOpen
    /\ rh.ConsecutiveFailures = 0
    /\ now > rh.LastStateChange

====
